---- MODULE Spec2Model ----
(***************************************************************************)
(* The resilient typed API client of the VESPR MCP server:                 *)
(* FetchApiClient (request / requestOnce / handleFetchError / parseJson /  *)
(* validateResponse / isRetryableError / sleep), the status-to-message     *)
(* mapper and the zod response schemas, as one client call (get or post)   *)
(* running against a transport (fetch) whose outcomes are chosen by the    *)
(* environment (Spec, and SpecFair where every awaited operation settles); *)
(* VesprApiRepository with its spot price cache under concurrent callers   *)
(* (SpecRepo, and SpecFull from a full cache); the utility functions of    *)
(* the tools, each applied to one input (SpecPure); and the handler of the *)
(* get_wallet_balance tool on top of the repository (SpecTool).            *)
(***************************************************************************)
EXTENDS Integers, Sequences, FiniteSets, TLC

VARIABLES
  maxRetries,        \* FetchApiClientConfig.maxRetries
  retryBaseDelayMs,  \* FetchApiClientConfig.retryBaseDelayMs
  method,            \* InternalRequest.method of the call ("" before the call)
  pc,                \* where the call is suspended
  attempt,           \* the loop variable of request()
  lastError,         \* the local lastError of request()
  outcome,           \* how the call ended: pending / returned / thrown
  fetchCalls,        \* number of invocations of fetch
  timers,            \* attempt index -> state of the timeout timer of requestOnce
  aborted,           \* attempt indexes whose AbortController has been aborted
  late,              \* attempt indexes whose response arrived after the abort
  injected,          \* the outcome of every finished attempt, in order
  waits,             \* the delays handed to sleep(), in order
  log,               \* the events handed to the logger, in order
  now,               \* the clock read by the LRUCache (ms)
  cache,             \* VesprApiRepository.spotPriceCache, most recently used first
  calls,             \* caller -> its running or last repository call
  started,           \* number of repository calls started
  fetched,           \* <<currency, response>> of every successful spot fetch
  touched,           \* the cached keys, the least recently read or written first
  lastEnd,           \* currency -> how its last finished lookup ended
  tool,              \* the running or last invocation of get_wallet_balance
  fn,                \* the utility function applied last ("" before the first)
  input,             \* its arguments
  output             \* what it returned or threw

\* the state of one FetchApiClient call followed step by step
clientVars == <<method, pc, attempt, lastError, outcome,
                fetchCalls, timers, aborted, late, injected, waits, log>>

\* the state of the repository and of its concurrent callers
repoVars == <<now, cache, calls, started, fetched, touched, lastEnd>>

\* the handler of the get_wallet_balance tool
toolVars == <<tool>>

\* one application of a utility function
pureVars == <<fn, input, output>>

vars == <<maxRetries, retryBaseDelayMs, clientVars, repoVars, toolVars, pureVars>>

-----------------------------------------------------------------------------
(* Bounds of the model *)

\* largest maxRetries the configurations of the model take
MaxRetriesBound == 4

\* the values of maxRetries a FetchApiClientConfig is given in the model
MaxRetriesValues == (0 - 1)..MaxRetriesBound

\* config.ts default and the test configuration of retryBaseDelayMs
DefaultRetryBaseDelayMs == 1000
TestRetryBaseDelayMs == 10
BaseDelayValues == {TestRetryBaseDelayMs, DefaultRetryBaseDelayMs}

\* HTTP statuses the transport answers with
Statuses == {200, 304, 400, 404, 418, 429, 500, 501, 503}

\* statusCode?: number left undefined
NoStatus == 0 - 1

-----------------------------------------------------------------------------
(* Strings *)

Contains(s, sub) ==
  \E i \in 1..(Len(s) - Len(sub) + 1) : SubSeq(s, i, i + Len(sub) - 1) = sub

\* s[i], a string of one character
CharAt(s, i) == SubSeq(s, i, i)

RECURSIVE Join(_, _)
\* Array.prototype.join
Join(seq, sep) ==
  IF seq = <<>> THEN ""
  ELSE IF Len(seq) = 1 THEN seq[1]
  ELSE seq[1] \o sep \o Join(Tail(seq), sep)

RECURSIVE Pow2(_)
\* Math.pow(2, n) for the loop indexes of request()
Pow2(n) == IF n <= 0 THEN 1 ELSE 2 * Pow2(n - 1)

-----------------------------------------------------------------------------
(* Error taxonomy *)

\* new VesprApiError(message, statusCode, originalError)
VesprApiError(message, statusCode, originalError) ==
  [name |-> "VesprApiError", message |-> message,
   statusCode |-> statusCode, originalError |-> originalError]

\* the value `undefined` when it is thrown or held in lastError
Undefined ==
  [name |-> "undefined", message |-> "", statusCode |-> NoStatus, originalError |-> "none"]

\* getErrorMessageForStatus with every 5xx status in the unavailable case
getErrorMessageForStatus_all5xx(statusCode) ==
  CASE statusCode = 400 -> "Invalid wallet address format."
    [] statusCode = 404 -> "Wallet not found. Verify the address is correct."
    [] statusCode = 429 -> "Rate limited by VESPR API. Please wait before retrying."
    [] statusCode >= 500 /\ statusCode <= 599 ->
         "VESPR API is temporarily unavailable. Try again later."
    [] OTHER -> "VESPR API returned an error (status " \o ToString(statusCode) \o ")."

getErrorMessageForStatus(statusCode) ==
  CASE statusCode = 400 -> "Invalid wallet address format."
    [] statusCode = 404 -> "Wallet not found. Verify the address is correct."
    [] statusCode = 429 -> "Rate limited by VESPR API. Please wait before retrying."
    [] statusCode \in {500, 502, 503, 504} ->
         "VESPR API is temporarily unavailable. Try again later."
    [] OTHER -> "VESPR API returned an error (status " \o ToString(statusCode) \o ")."

\* isRetryableError without the 429 case
isRetryableError_only5xx(error) ==
  IF error.name = "VesprApiError" /\ error.statusCode # NoStatus /\ error.statusCode # 0
  THEN error.statusCode >= 500
  ELSE FALSE

\* isRetryableError taking every client error for transient
isRetryableError_from400(error) ==
  IF error.name = "VesprApiError" /\ error.statusCode # NoStatus /\ error.statusCode # 0
  THEN error.statusCode >= 400
  ELSE FALSE

\* isRetryableError taking an error without status code for transient
isRetryableError_noStatus(error) ==
  IF error.name = "VesprApiError" /\ error.statusCode # NoStatus /\ error.statusCode # 0
  THEN error.statusCode >= 500 \/ error.statusCode = 429
  ELSE error.name = "VesprApiError"

\* error instanceof VesprApiError && error.statusCode ? >= 500 || === 429 : false
isRetryableError(error) ==
  IF error.name = "VesprApiError" /\ error.statusCode # NoStatus /\ error.statusCode # 0
  THEN error.statusCode >= 500 \/ error.statusCode = 429
  ELSE FALSE

\* handleFetchError: the error built from what fetch rejected with
handleFetchError(errorName) ==
  IF errorName = "AbortError"
  THEN VesprApiError("Request timed out. Try again.", NoStatus, errorName)
  ELSE VesprApiError("Unable to connect to API. Check your internet connection.",
                     NoStatus, errorName)

\* a handleFetchError that reports every rejected fetch as a network failure
handleFetchErrorEvent_network(errorName) == "api_network_error"

\* the log event handleFetchError emits
handleFetchErrorEvent(errorName) ==
  IF errorName = "AbortError" THEN "api_timeout" ELSE "api_network_error"

\* parseJson handing the status of the response to the error
parseJsonError_withStatus(errorName) ==
  VesprApiError("Failed to parse API response.", 200, errorName)

\* the error parseJson throws when response.json() rejects
parseJsonError(errorName) ==
  VesprApiError("Failed to parse API response.", NoStatus, errorName)

\* the error requestOnce throws for a response that is not ok
statusError(status) == VesprApiError(getErrorMessageForStatus(status), status, "none")

\* a client that takes every status below 400 for a success
ResponseOk_below400(status) == status >= 200 /\ status <= 399

\* Response.ok
ResponseOk(status) == status >= 200 /\ status <= 299

-----------------------------------------------------------------------------
(* JSON values and the zod schemas *)

JStr(v) == [t |-> "string", v |-> v]
JNum(n) == [t |-> "number", n |-> n]
JNull == [t |-> "null"]
JUndefined == [t |-> "undefined"]
JArr(items) == [t |-> "array", items |-> items]
JObj(fields) == [t |-> "object", fields |-> fields]

\* obj[key], undefined when the key is missing
Get(obj, key) == IF key \in DOMAIN obj.fields THEN obj.fields[key] ELSE JUndefined

\* one declared field of a z.object: its key, its type and whether it is
\* required, .nullable() or .nullish()
Field(key, type, opt) == [key |-> key, type |-> type, opt |-> opt]

\* the max of new LRUCache({ max: 100, ... })
CacheMax == 100

\* the code that stands for the i-th of the other fiat currencies
Filler(i) == "F" \o ToString(i)

\* stand-ins for the other fiat currencies (the README counts 160+), enough
\* of them to fill the cache
FillerCurrencies == {Filler(i) : i \in 1..CacheMax}

\* currencies named by the README as supported, and the other fiat currencies
SUPPORTED_CURRENCIES == {"USD", "EUR", "GBP", "ADA"} \cup FillerCurrencies

\* a TokenInfoSchema whose ticker is a plain z.string()
TokenInfoSchema_tickerRequired ==
  << Field("policy", "string", "required"),
     Field("hex_asset_name", "string", "required"),
     Field("name", "string", "required"),
     Field("ticker", "string", "required"),
     Field("quantity", "string", "required"),
     Field("ada_per_adjusted_unit", "string", "nullish"),
     Field("decimals", "number", "required") >>

TokenInfoSchema ==
  << Field("policy", "string", "required"),
     Field("hex_asset_name", "string", "required"),
     Field("name", "string", "required"),
     Field("ticker", "string", "nullish"),
     Field("quantity", "string", "required"),
     Field("ada_per_adjusted_unit", "string", "nullish"),
     Field("decimals", "number", "required") >>

WalletDetailedResponseSchema ==
  << Field("lovelace", "string", "required"),
     Field("rewards_lovelace", "string", "required"),
     Field("handles", "strings", "required"),
     Field("tokens", "tokens", "required") >>

AdaSpotPriceResponseSchema ==
  << Field("currency", "currency", "required"),
     Field("spot", "string", "required"),
     Field("spot1hAgo", "string", "nullable"),
     Field("spot24hAgo", "string", "nullable") >>

\* the schema VesprApiClient hands to post (wallet detail) and to get (spot price)
SchemaOf(m) ==
  IF m = "POST" THEN WalletDetailedResponseSchema ELSE AdaSpotPriceResponseSchema

\* a zod issue: e.path joined with "." and e.message
Issue(path, message) == [path |-> path, message |-> message]

PathOf(prefix, key) == IF prefix = "" THEN key ELSE prefix \o "." \o key

\* the JSON type zod expects for a declared type
ExpectedType(type) ==
  CASE type = "string" -> "string"
    [] type = "currency" -> "string"
    [] type = "number" -> "number"
    [] type = "strings" -> "array"
    [] type = "tokens" -> "array"
    [] OTHER -> "object"

InvalidType(path, type, v) ==
  << Issue(path, "Expected " \o ExpectedType(type) \o ", received " \o v.t) >>

RECURSIVE ValueIssues(_, _, _, _), ItemsIssues(_, _, _, _), FieldsIssues(_, _, _, _)
\* the issues zod reports for value v checked against a declared type
ValueIssues(v, type, opt, path) ==
  IF v.t = "undefined"
  THEN IF opt = "nullish" THEN <<>> ELSE << Issue(path, "Required") >>
  ELSE IF v.t = "null"
  THEN IF opt \in {"nullable", "nullish"} THEN <<>> ELSE InvalidType(path, type, v)
  ELSE IF v.t # ExpectedType(type) THEN InvalidType(path, type, v)
  ELSE CASE type = "currency" ->
              IF v.v \in SUPPORTED_CURRENCIES THEN <<>>
              ELSE << Issue(path, "Invalid enum value") >>
         [] type = "strings" -> ItemsIssues(v.items, "string", path, 0)
         [] type = "tokens" -> ItemsIssues(v.items, "token", path, 0)
         [] type = "token" -> FieldsIssues(v, TokenInfoSchema, path, 1)
         [] OTHER -> <<>>

\* z.array: the issues of every element, each under path.<index>
ItemsIssues(items, type, path, i) ==
  IF i >= Len(items) THEN <<>>
  ELSE ValueIssues(items[i + 1], type, "required", PathOf(path, ToString(i)))
       \o ItemsIssues(items, type, path, i + 1)

\* z.object: the issues of every declared field, in declaration order
FieldsIssues(obj, schema, path, k) ==
  IF k > Len(schema) THEN <<>>
  ELSE ValueIssues(Get(obj, schema[k].key), schema[k].type, schema[k].opt,
                   PathOf(path, schema[k].key))
       \o FieldsIssues(obj, schema, path, k + 1)

\* result.error.issues of schema.safeParse(data)
SafeParseIssues(data, schema) ==
  IF data.t = "object" THEN FieldsIssues(data, schema, "", 1)
  ELSE IF data.t = "undefined" THEN << Issue("", "Required") >>
  ELSE InvalidType("", "object", data)

SchemaKeys(schema) == {schema[k].key : k \in 1..Len(schema)}
TypeOfKey(schema, key) == schema[CHOOSE k \in 1..Len(schema) : schema[k].key = key].type

RECURSIVE StripObject(_, _)
\* result.data of a successful safeParse: the declared keys that are present
\* (z.object drops unknown keys)
StripObject(obj, schema) ==
  JObj([key \in {f \in DOMAIN obj.fields \cap SchemaKeys(schema) :
                   obj.fields[f].t # "undefined"} |->
          IF TypeOfKey(schema, key) = "tokens" /\ obj.fields[key].t = "array"
          THEN JArr([i \in 1..Len(obj.fields[key].items) |->
                       StripObject(obj.fields[key].items[i], TokenInfoSchema)])
          ELSE obj.fields[key]])

\* a validateResponse that reports the first issue only
IssueTexts_firstOnly(issues) ==
  IF issues = <<>> THEN <<>>
  ELSE << issues[1].path \o ": " \o issues[1].message >>

\* `${e.path.join(".")}: ${e.message}` of every issue, joined with ", "
RECURSIVE IssueTexts(_)
IssueTexts(issues) ==
  IF issues = <<>> THEN <<>>
  ELSE << issues[1].path \o ": " \o issues[1].message >> \o IssueTexts(Tail(issues))

\* the error validateResponse throws for a failed safeParse
validationError(issues) ==
  VesprApiError("Invalid API response: " \o Join(IssueTexts(issues), ", "), NoStatus, "none")

-----------------------------------------------------------------------------
(* Response bodies the transport delivers *)

TestToken ==
  JObj([policy |-> JStr("abc123"), hex_asset_name |-> JStr("546f6b656e"),
        name |-> JStr("TestToken"), ticker |-> JStr("TEST"),
        quantity |-> JStr("1000000"), decimals |-> JNum(6)])

mockWalletResponse ==
  JObj([lovelace |-> JStr("5000000000"), rewards_lovelace |-> JStr("100000000"),
        handles |-> JArr(<< JStr("$myhandle") >>), tokens |-> JArr(<< TestToken >>)])

\* the response of "handles missing optional fields"
MissingOptionalResponse == JObj([lovelace |-> JStr("1000000")])

\* the response of "handles token with null ticker"
NullTickerResponse ==
  JObj([lovelace |-> JStr("5000000000"), rewards_lovelace |-> JStr("100000000"),
        handles |-> JArr(<< JStr("$myhandle") >>),
        tokens |-> JArr(<< JObj([TestToken.fields EXCEPT !.ticker = JNull]) >>)])

\* a wallet response with an unknown extra key
ExtraKeyResponse ==
  JObj([lovelace |-> JStr("2000000"), rewards_lovelace |-> JStr("0"),
        handles |-> JArr(<<>>), tokens |-> JArr(<<>>), stake_key |-> JStr("stake1u")])

\* a wallet response violating the schema in two places
BadTypesResponse ==
  JObj([lovelace |-> JNum(5), rewards_lovelace |-> JStr("0"), handles |-> JArr(<<>>),
        tokens |-> JArr(<< JObj([TestToken.fields EXCEPT !.decimals = JStr("6")]) >>)])

SpotResponse ==
  JObj([currency |-> JStr("USD"), spot |-> JStr("0.5"),
        spot1hAgo |-> JNull, spot24hAgo |-> JStr("0.4")])

Bodies ==
  {mockWalletResponse, MissingOptionalResponse, NullTickerResponse,
   ExtraKeyResponse, BadTypesResponse, SpotResponse, JNull}

-----------------------------------------------------------------------------
(* One client call: FetchApiClient.get / post -> request -> requestOnce *)

Pending == [kind |-> "pending", value |-> JUndefined, error |-> Undefined]
Returned(value) == [kind |-> "returned", value |-> value, error |-> Undefined]
Thrown(error) == [kind |-> "thrown", value |-> JUndefined, error |-> error]

\* what one finished attempt met: "success", "invalid" (shape mismatch), "parse",
\* "status", "network" or "timeout"
Met(kind, status, data) == [kind |-> kind, status |-> status, data |-> data]

\* logger.<level>(event, {...})
LogEvent(level, event) ==
  [level |-> level, event |-> event, method |-> "", attempt |-> 0,
   maxRetries |-> 0, delayMs |-> 0, statusCode |-> NoStatus, error |-> ""]

\* ---------------------------------------------------------------------------
\* VesprApiRepository: the spot price cache and the callers of the repository

\* bounds of the repository model
NumCallers == 2
MaxCalls == 3
MaxTicks == 3
RepoMaxRetries == 2

Callers == 1..NumCallers

\* new LRUCache({ max: 100, ttl: 1000 * 60 * 10 }); CacheMax is the max
CacheTtl == 1000 * 60 * 10

\* the clock advances in steps of half the time to live
TickMs == CacheTtl \div 2

CryptoCurrencyADA == "ADA"

\* the currencies the callers ask for
LookupCurrencies == {CryptoCurrencyADA, "USD", "EUR"}

\* the prices the backend answers with
Prices == {"0.5", "0.6"}

\* the wallet address the callers ask for
TestAddress == "addr1test"

\* the constant getAdaSpotPrice returns for the reference currency
AdaSpotPrice ==
  JObj([currency |-> JStr(CryptoCurrencyADA), spot |-> JStr("1"),
        spot1hAgo |-> JNull, spot24hAgo |-> JNull])

\* a backend answer for a currency
SpotBody(c, price) ==
  JObj([currency |-> JStr(c), spot |-> JStr(price),
        spot1hAgo |-> JNull, spot24hAgo |-> JStr(price)])

\* one entry of the cache: the key, the value, the time its age counts from
\* and the time the value was set
Entry(k, v, t) == [key |-> k, value |-> v, start |-> t, born |-> t]

Keys(ch) == {ch[i].key : i \in 1..Len(ch)}

IndexOf(ch, k) == CHOOSE i \in 1..Len(ch) : ch[i].key = k

Without(ch, i) == SubSeq(ch, 1, i - 1) \o SubSeq(ch, i + 1, Len(ch))

\* a cache whose entries are stale at once
IsStale_always(e, t) == TRUE

\* LRUCache: an entry is stale once more than ttl has passed since it was set
IsStale(e, t) == t - e.start > CacheTtl

\* LRUCache.get that also refreshes the age of the entry it returns
CacheGet_updateAge(ch, k, t) ==
  IF k \notin Keys(ch)
  THEN [found |-> FALSE, value |-> JUndefined, cache |-> ch]
  ELSE LET i == IndexOf(ch, k) IN
       IF IsStale(ch[i], t)
       THEN [found |-> FALSE, value |-> JUndefined, cache |-> Without(ch, i)]
       ELSE [found |-> TRUE, value |-> ch[i].value, born |-> ch[i].born,
             cache |-> <<[ch[i] EXCEPT !.start = t]>> \o Without(ch, i)]

\* LRUCache.get that leaves the recency order alone
CacheGet_noTouch(ch, k, t) ==
  IF k \notin Keys(ch)
  THEN [found |-> FALSE, value |-> JUndefined, cache |-> ch]
  ELSE LET i == IndexOf(ch, k) IN
       IF IsStale(ch[i], t)
       THEN [found |-> FALSE, value |-> JUndefined, cache |-> Without(ch, i)]
       ELSE [found |-> TRUE, value |-> ch[i].value, born |-> ch[i].born, cache |-> ch]

\* LRUCache.get: a missing key is undefined; a stale entry is deleted and
\* undefined; a live entry becomes the most recently used and keeps its age
CacheGet(ch, k, t) ==
  IF k \notin Keys(ch)
  THEN [found |-> FALSE, value |-> JUndefined, cache |-> ch]
  ELSE LET i == IndexOf(ch, k) IN
       IF IsStale(ch[i], t)
       THEN [found |-> FALSE, value |-> JUndefined, cache |-> Without(ch, i)]
       ELSE [found |-> TRUE, value |-> ch[i].value, born |-> ch[i].born,
             cache |-> <<ch[i]>> \o Without(ch, i)]

\* a cache whose set keeps the entry a key already has
CacheSet_keepFirst(ch, k, v, t) ==
  IF k \in {ch[i].key : i \in 1..Len(ch)} THEN ch ELSE <<[key |-> k, value |-> v, start |-> t, born |-> t]>> \o ch

\* LRUCache.set: the entry becomes the most recently used with a new age; a
\* new key in a full cache evicts the least recently used entry
CacheSet(ch, k, v, t) ==
  IF k \in Keys(ch)
  THEN <<Entry(k, v, t)>> \o Without(ch, IndexOf(ch, k))
  ELSE IF Len(ch) >= CacheMax
       THEN <<Entry(k, v, t)>> \o SubSeq(ch, 1, Len(ch) - 1)
       ELSE <<Entry(k, v, t)>> \o ch

\* the recency record after key k was read or written and the cache became ch
Touch(tch, k, ch) ==
  LET Kept(c) == c # k /\ c \in Keys(ch) IN
  SelectSeq(tch, Kept) \o <<k>>

\* the recency record after entries left the cache
Forget(tch, ch) ==
  LET Kept(c) == c \in Keys(ch) IN
  SelectSeq(tch, Kept)

\* no finished lookup yet
NoEnd ==
  [kind |-> "none", fetches |-> 0, stored |-> FALSE, value |-> JUndefined, at |-> 0]

\* a caller that has not called yet.  Beside the locals of request() a call
\* records what it met and did: the outcomes of its attempts, its waits, its
\* uses of fetch and of the cache, the age of the value a hit returned and
\* how the lookup ended that finished last before it started
IdleCall ==
  [op |-> "none", arg |-> "", pc |-> "idle", attempt |-> 0,
   lastError |-> Undefined, outcome |-> Pending, fetches |-> 0,
   met |-> <<>>, waits |-> <<>>, inflight |-> 0, sleeping |-> 0,
   hit |-> FALSE, age |-> 0, gets |-> 0, sets |-> 0,
   prev |-> NoEnd, since |-> 0]

\* the repository after construction
RepoIdle ==
  /\ now = 0
  /\ cache = <<>>
  /\ calls = [p \in Callers |-> IdleCall]
  /\ started = 0
  /\ fetched = {}
  /\ touched = <<>>
  /\ lastEnd = [c \in LookupCurrencies \ {CryptoCurrencyADA} |-> NoEnd]

\* the client before a call
ClientIdle ==
  /\ method = ""
  /\ pc = "idle"
  /\ attempt = 0
  /\ lastError = Undefined
  /\ outcome = Pending
  /\ fetchCalls = 0
  /\ timers = <<>>
  /\ aborted = {}
  /\ late = {}
  /\ injected = <<>>
  /\ waits = <<>>
  /\ log = <<>>

\* no utility function applied yet
PureIdle ==
  /\ fn = ""
  /\ input = <<>>
  /\ output = <<>>

\* the tool before its first invocation: where the handler is, the arguments
\* of the invocation, what the handler returned or threw, and how often the
\* tool was invoked
IdleTool ==
  [pc |-> "idle", address |-> JUndefined, currency |-> "", result |-> Pending,
   invocations |-> 0]

ToolIdle == tool = IdleTool

Init ==
  /\ maxRetries \in MaxRetriesValues
  /\ retryBaseDelayMs \in BaseDelayValues
  /\ ClientIdle
  /\ RepoIdle
  /\ ToolIdle
  /\ PureIdle

\* the loop condition of request(): attempt < this.config.maxRetries
LoopContinues(a) == a < maxRetries

\* the last-attempt test off by one
IsLastAttempt_offByOne(a) == a = maxRetries

\* attempt === this.config.maxRetries - 1
IsLastAttempt(a) == a = maxRetries - 1

\* a linear backoff
DelayMs_linear(a) == retryBaseDelayMs * (a + 1)

\* delayMs = this.config.retryBaseDelayMs * Math.pow(2, attempt)
DelayMs(a) == retryBaseDelayMs * Pow2(a)

\* clearTimeout(timeoutId) for the timer of the attempt with index a
\* a clearTimeout that releases nothing
clearTimeout_never(ts, a) == ts

clearTimeout(ts, a) ==
  IF ts[a + 1] = "pending" THEN [ts EXCEPT ![a + 1] = "cleared"] ELSE ts

\* the clearTimeout of the catch block of requestOnce
CatchClear(ts, a) == clearTimeout(ts, a)

\* a requestOnce without the finally block
FinallyClear_missing(ts, a) == ts

\* the clearTimeout of the finally block of requestOnce
FinallyClear(ts, a) == clearTimeout(ts, a)

\* the catch block of request(): error is what requestOnce threw, events what
\* requestOnce logged before throwing
catch(error, events) ==
  /\ lastError' = error
  /\ IF ~isRetryableError(error) \/ IsLastAttempt(attempt)
     THEN /\ outcome' = Thrown(error)
          /\ pc' = "done"
          /\ log' = log \o events
          /\ waits' = waits
     ELSE /\ log' = log \o events \o
                    << [LogEvent("warn", "api_retry") EXCEPT
                          !.attempt = attempt + 1, !.maxRetries = maxRetries,
                          !.delayMs = DelayMs(attempt), !.error = error.message] >>
          /\ waits' = Append(waits, DelayMs(attempt))
          /\ pc' = "sleep"
          /\ outcome' = outcome
  /\ attempt' = attempt

\* get(request) / post(request): request() up to the loop
request(m) ==
  /\ pc = "idle"
  /\ method' = m
  /\ pc' = "loop"
  /\ attempt' = 0
  /\ lastError' = Undefined
  /\ UNCHANGED <<maxRetries, retryBaseDelayMs, outcome, fetchCalls, timers, aborted,
                 late, injected, waits, log>>
  /\ UNCHANGED <<repoVars, toolVars, pureVars>>

get == request("GET")

post == request("POST")

\* one more iteration: requestOnce up to `await fetch(url, fetchOptions)`
requestOnce ==
  /\ pc = "loop"
  /\ LoopContinues(attempt)
  /\ log' = Append(log, [LogEvent("info", "api_request") EXCEPT !.method = method])
  /\ timers' = Append(timers, "pending")
  /\ fetchCalls' = fetchCalls + 1
  /\ pc' = "fetch"
  /\ UNCHANGED <<maxRetries, retryBaseDelayMs, method, attempt, lastError, outcome,
                 aborted, late, injected, waits>>
  /\ UNCHANGED <<repoVars, toolVars, pureVars>>

\* the loop is left: throw lastError
throwLastError ==
  /\ pc = "loop"
  /\ ~LoopContinues(attempt)
  /\ outcome' = Thrown(lastError)
  /\ pc' = "done"
  /\ UNCHANGED <<maxRetries, retryBaseDelayMs, method, attempt, lastError, fetchCalls,
                 timers, aborted, late, injected, waits, log>>
  /\ UNCHANGED <<repoVars, toolVars, pureVars>>

\* the callback of setTimeout(() => controller.abort(), requestTimeoutMs) runs
\* for the timer of the attempt with index a
timerFires(a) ==
  /\ timers[a + 1] = "pending"
  /\ timers' = [timers EXCEPT ![a + 1] = "fired"]
  /\ aborted' = aborted \cup {a}
  /\ UNCHANGED <<maxRetries, retryBaseDelayMs, method, pc, attempt, lastError, outcome,
                 fetchCalls, late, injected, waits, log>>
  /\ UNCHANGED <<repoVars, toolVars, pureVars>>

\* a fetch that was not given the signal
MayResolve_noSignal(a) == TRUE

\* whether fetch may still resolve with a response: not once its signal is aborted
MayResolve(a) == a \notin aborted

\* fetch resolves with a response of the given status; requestOnce runs to the
\* throw for a response that is not ok, or to `await response.json()`
fetchResolves(status) ==
  /\ pc = "fetch"
  /\ MayResolve(attempt)
  /\ timers' = FinallyClear(timers, attempt)
  /\ IF ~ResponseOk(status)
     THEN /\ injected' = Append(injected, Met("status", status, JUndefined))
          /\ catch(statusError(status),
                   << [LogEvent("error", "api_error") EXCEPT !.statusCode = status] >>)
     ELSE /\ pc' = "json"
          /\ UNCHANGED <<attempt, lastError, outcome, injected, waits, log>>
  /\ UNCHANGED <<maxRetries, retryBaseDelayMs, method, fetchCalls, aborted, late>>
  /\ UNCHANGED <<repoVars, toolVars, pureVars>>

\* fetch rejects: with the AbortError of its aborted signal, or else with a
\* network failure (TypeError)
fetchRejects(errorName) ==
  /\ pc = "fetch"
  /\ (errorName = "AbortError") <=> (attempt \in aborted)
  /\ timers' = FinallyClear(CatchClear(timers, attempt), attempt)
  /\ injected' = Append(injected,
                        Met(IF errorName = "AbortError" THEN "timeout" ELSE "network",
                            NoStatus, JUndefined))
  /\ catch(handleFetchError(errorName),
           << LogEvent("error", handleFetchErrorEvent(errorName)) >>)
  /\ UNCHANGED <<maxRetries, retryBaseDelayMs, method, fetchCalls, aborted, late>>
  /\ UNCHANGED <<repoVars, toolVars, pureVars>>

fetchRejectsAbort == fetchRejects("AbortError")

fetchRejectsNetwork == fetchRejects("TypeError")

\* the server's response reaches the transport after the signal was aborted:
\* the transport drops it
lateResponse ==
  /\ pc = "fetch"
  /\ attempt \in aborted
  /\ attempt \notin late
  /\ late' = late \cup {attempt}
  /\ UNCHANGED <<maxRetries, retryBaseDelayMs, method, pc, attempt, lastError, outcome,
                 fetchCalls, timers, aborted, injected, waits, log>>
  /\ UNCHANGED <<repoVars, toolVars, pureVars>>

\* response.json() resolves with data: validateResponse, then return or throw
jsonResolves(data) ==
  /\ pc = "json"
  /\ LET issues == SafeParseIssues(data, SchemaOf(method)) IN
       IF issues = <<>>
       THEN /\ injected' = Append(injected, Met("success", 200, data))
            /\ outcome' = Returned(StripObject(data, SchemaOf(method)))
            /\ log' = Append(log, LogEvent("info", "api_success"))
            /\ pc' = "done"
            /\ UNCHANGED <<attempt, lastError, waits>>
       ELSE /\ injected' = Append(injected, Met("invalid", 200, data))
            /\ catch(validationError(issues),
                     << LogEvent("error", "api_validation_error") >>)
  /\ UNCHANGED <<maxRetries, retryBaseDelayMs, method, fetchCalls, timers, aborted, late>>
  /\ UNCHANGED <<repoVars, toolVars, pureVars>>

\* response.json() rejects: parseJson throws
jsonRejects(errorName) ==
  /\ pc = "json"
  /\ injected' = Append(injected, Met("parse", 200, JUndefined))
  /\ catch(parseJsonError(errorName), << LogEvent("error", "api_parse_error") >>)
  /\ UNCHANGED <<maxRetries, retryBaseDelayMs, method, fetchCalls, timers, aborted, late>>
  /\ UNCHANGED <<repoVars, toolVars, pureVars>>

\* the timer of sleep(delayMs) runs: the loop goes on with attempt++
sleep ==
  /\ pc = "sleep"
  /\ attempt' = attempt + 1
  /\ pc' = "loop"
  /\ UNCHANGED <<maxRetries, retryBaseDelayMs, method, lastError, outcome, fetchCalls,
                 timers, aborted, late, injected, waits, log>>
  /\ UNCHANGED <<repoVars, toolVars, pureVars>>

Next ==
  \/ get
  \/ post
  \/ requestOnce
  \/ throwLastError
  \/ \E a \in 0..MaxRetriesBound : a < Len(timers) /\ timerFires(a)
  \/ \E status \in Statuses : fetchResolves(status)
  \/ fetchRejectsAbort
  \/ fetchRejectsNetwork
  \/ lateResponse
  \/ \E data \in Bodies : jsonResolves(data)
  \/ \E errorName \in {"SyntaxError", "TypeError"} : jsonRejects(errorName)
  \/ sleep

Spec == Init /\ [][Next]_vars

\* ---------------------------------------------------------------------------
\* The repository under concurrent callers.  Each caller's call carries its
\* own request() loop; an attempt (fetch, json, validation) is one step.

\* config.maxRetries: Number(process.env.MAX_RETRIES) || 3 is never 0
RepoMaxRetriesValues == ((0 - 1)..RepoMaxRetries) \ {0}

\* the statuses the backend answers with
RepoStatuses == {200, 404, 503}

\* the method VesprApiClient uses for an operation of the repository
MethodOf(op) == IF op = "wallet" THEN "POST" ELSE "GET"

\* the bodies the backend answers an operation with
RepoBodies(op, arg) ==
  IF op = "wallet" THEN {mockWalletResponse}
  ELSE {SpotBody(arg, price) : price \in Prices}

\* a repository without the branch for the reference currency
IsReference_never(currency) == FALSE

\* currency === CryptoCurrency.ADA
IsReference(currency) == currency = CryptoCurrencyADA

\* a cache that keeps every currency under one key
CacheKey_shared(currency) == "spot"

\* the key of spotPriceCache.get(currency) and spotPriceCache.set(currency, ...)
CacheKey(currency) == currency

\* an attempt counter shared by the calls in flight
NextAttempt_shared(cs, p) ==
  1 + CHOOSE n \in {cs[q].attempt : q \in Callers} :
        \A q \in Callers : cs[q].attempt <= n

\* attempt++ of the loop of the caller's own request()
NextAttempt(cs, p) == cs[p].attempt + 1

\* how a lookup ended that finishes now: returned or thrown, after how many
\* uses of fetch, whether it stored the value it returned, and the value and
\* the time it was stored
Ended(cl) ==
  IF cl.outcome.kind = "returned"
  THEN [kind |-> "returned", fetches |-> cl.fetches, stored |-> cl.sets = 1,
        value |-> cl.outcome.value, at |-> now - cl.age]
  ELSE [NoEnd EXCEPT !.kind = cl.outcome.kind, !.fetches = cl.fetches]

\* request() from its start, or after a sleep, up to the await of fetch, or
\* to `throw lastError` when the loop is left
enterLoop(cl, a) ==
  IF LoopContinues(a)
  THEN [cl EXCEPT !.attempt = a, !.pc = "fetch", !.sleeping = 0,
                  !.fetches = cl.fetches + 1, !.inflight = cl.inflight + 1]
  ELSE [cl EXCEPT !.attempt = a, !.pc = "done", !.sleeping = 0,
                  !.outcome = Thrown(cl.lastError)]

\* the effect of a call's move to cl on the record of finished lookups
account(cl) ==
  lastEnd' = IF cl.pc = "done" /\ cl.op = "spot" /\ cl.arg \in DOMAIN lastEnd
             THEN [lastEnd EXCEPT ![cl.arg] = Ended(cl)]
             ELSE lastEnd

\* the body of getAdaSpotPrice(currency) up to its first await or return, for
\* caller p, cs being the calls as they are when it begins
lookupSpotPrice(cs, p, currency) ==
  /\ LET prev == IF currency \in DOMAIN lastEnd THEN lastEnd[currency] ELSE NoEnd IN
     LET cl == [IdleCall EXCEPT !.op = "spot", !.arg = currency, !.prev = prev,
                                !.since = IF prev.kind = "returned"
                                          THEN now - prev.at ELSE 0] IN
       IF IsReference(currency)
       THEN LET go == [cl EXCEPT !.pc = "done", !.outcome = Returned(AdaSpotPrice)] IN
            /\ calls' = [cs EXCEPT ![p] = go]
            /\ account(go)
            /\ UNCHANGED <<cache, touched>>
       ELSE LET r == CacheGet(cache, CacheKey(currency), now) IN
            /\ cache' = r.cache
            /\ IF r.found
               THEN LET go == [cl EXCEPT !.pc = "done", !.gets = 1, !.hit = TRUE,
                                         !.age = now - r.born,
                                         !.outcome = Returned(r.value)] IN
                    /\ calls' = [cs EXCEPT ![p] = go]
                    /\ touched' = Touch(touched, CacheKey(currency), r.cache)
                    /\ account(go)
               ELSE LET go == enterLoop([cl EXCEPT !.gets = 1], 0) IN
                    /\ calls' = [cs EXCEPT ![p] = go]
                    /\ touched' = Forget(touched, r.cache)
                    /\ account(go)

\* VesprApiRepository.getAdaSpotPrice(currency) up to its first await or return
getAdaSpotPrice(p, currency) ==
  /\ calls[p].pc \in {"idle", "done"}
  /\ started < MaxCalls
  /\ started' = started + 1
  /\ lookupSpotPrice(calls, p, currency)
  /\ UNCHANGED <<now, fetched>>
  /\ UNCHANGED <<maxRetries, retryBaseDelayMs, clientVars, toolVars, pureVars>>

\* VesprApiRepository.getDetailedWallet(address) up to its first await or return
getDetailedWallet(p, address) ==
  /\ calls[p].pc \in {"idle", "done"}
  /\ started < MaxCalls
  /\ started' = started + 1
  /\ calls' = [calls EXCEPT ![p] =
                 enterLoop([IdleCall EXCEPT !.op = "wallet", !.arg = address], 0)]
  /\ UNCHANGED <<now, cache, fetched, touched, lastEnd>>
  /\ UNCHANGED <<maxRetries, retryBaseDelayMs, clientVars, toolVars, pureVars>>

\* a repository that stores the error of a failed lookup as its value
attemptFails_cached(p, m, error) ==
  LET cl == [calls[p] EXCEPT !.met = Append(calls[p].met, m), !.inflight = 0,
                             !.lastError = error] IN
  LET go == IF ~isRetryableError(error) \/ IsLastAttempt(cl.attempt)
            THEN [cl EXCEPT !.pc = "done", !.outcome = Thrown(error),
                            !.sets = IF cl.op = "spot" THEN 1 ELSE 0]
            ELSE [cl EXCEPT !.pc = "sleep", !.sleeping = 1,
                            !.waits = Append(cl.waits, DelayMs(cl.attempt))] IN
  /\ calls' = [calls EXCEPT ![p] = go]
  /\ cache' = IF go.sets = 1 THEN CacheSet(cache, CacheKey(go.arg), error, now)
               ELSE cache
  /\ touched' = IF go.sets = 1 THEN Touch(touched, CacheKey(go.arg), cache')
                 ELSE touched
  /\ account(go)
  /\ UNCHANGED <<now, started, fetched>>

\* the attempt of caller p throws error after meeting m: the catch block of
\* request()
attemptFails(p, m, error) ==
  LET cl == [calls[p] EXCEPT !.met = Append(calls[p].met, m), !.inflight = 0,
                             !.lastError = error] IN
  LET go == IF ~isRetryableError(error) \/ IsLastAttempt(cl.attempt)
            THEN [cl EXCEPT !.pc = "done", !.outcome = Thrown(error)]
            ELSE [cl EXCEPT !.pc = "sleep", !.sleeping = 1,
                            !.waits = Append(cl.waits, DelayMs(cl.attempt))] IN
  /\ calls' = [calls EXCEPT ![p] = go]
  /\ account(go)
  /\ UNCHANGED <<now, cache, started, fetched, touched>>

\* the attempt of caller p returns the validated value: a wallet detail is
\* returned to the caller, a spot price to the continuation of getAdaSpotPrice
attemptSucceeds(p, m, value) ==
  LET cl == [calls[p] EXCEPT !.met = Append(calls[p].met, m), !.inflight = 0] IN
  LET go == IF cl.op = "wallet"
            THEN [cl EXCEPT !.pc = "done", !.outcome = Returned(value)]
            ELSE [cl EXCEPT !.pc = "store", !.outcome = Returned(value)] IN
  /\ calls' = [calls EXCEPT ![p] = go]
  /\ fetched' = IF cl.op = "spot"
                THEN fetched \cup {<<cl.arg, value>>} ELSE fetched
  /\ UNCHANGED <<now, cache, started, touched, lastEnd>>

\* fetch resolves for caller p with a status and a body
transportAnswers(p, status, data) ==
  /\ calls[p].pc = "fetch"
  /\ LET schema == SchemaOf(MethodOf(calls[p].op)) IN
     LET issues == SafeParseIssues(data, schema) IN
       IF ~ResponseOk(status)
       THEN attemptFails(p, Met("status", status, JUndefined), statusError(status))
       ELSE IF issues = <<>>
            THEN attemptSucceeds(p, Met("success", status, data),
                                 StripObject(data, schema))
            ELSE attemptFails(p, Met("invalid", status, data),
                              validationError(issues))
  /\ UNCHANGED <<maxRetries, retryBaseDelayMs, clientVars, toolVars, pureVars>>

\* fetch rejects for caller p with a network failure
transportRejects(p) ==
  /\ calls[p].pc = "fetch"
  /\ attemptFails(p, Met("network", NoStatus, JUndefined), handleFetchError("TypeError"))
  /\ UNCHANGED <<maxRetries, retryBaseDelayMs, clientVars, toolVars, pureVars>>

\* the continuation of getAdaSpotPrice after `await this.client.getAdaSpotPrice`:
\* spotPriceCache.set(currency, spotPrice); return spotPrice
storeSpotPrice(p) ==
  /\ calls[p].pc = "store"
  /\ LET go == [calls[p] EXCEPT !.pc = "done", !.sets = 1] IN
       /\ calls' = [calls EXCEPT ![p] = go]
       /\ cache' = CacheSet(cache, CacheKey(go.arg), go.outcome.value, now)
       /\ touched' = Touch(touched, CacheKey(go.arg), cache')
       /\ account(go)
  /\ UNCHANGED <<now, started, fetched>>
  /\ UNCHANGED <<maxRetries, retryBaseDelayMs, clientVars, toolVars, pureVars>>

\* the timer of caller p's sleep(delayMs) runs: the loop goes on with attempt++
sleepElapses(p) ==
  /\ calls[p].pc = "sleep"
  /\ LET go == enterLoop(calls[p], NextAttempt(calls, p)) IN
       /\ calls' = [calls EXCEPT ![p] = go]
       /\ account(go)
  /\ UNCHANGED <<now, cache, started, fetched, touched>>
  /\ UNCHANGED <<maxRetries, retryBaseDelayMs, clientVars, toolVars, pureVars>>

\* time passes
tick ==
  /\ now < MaxTicks * TickMs
  /\ now' = now + TickMs
  /\ UNCHANGED <<cache, calls, started, fetched, touched, lastEnd>>
  /\ UNCHANGED <<maxRetries, retryBaseDelayMs, clientVars, toolVars, pureVars>>

\* a lookup whose fetch has returned has its continuation queued: the
\* continuation follows the settling of the awaited promise as a microtask, so
\* it runs before the event loop takes any other event (a call of a caller, a
\* response, a timer)
ContinuationIsNext == \E p \in Callers : calls[p].pc = "store"

RepoNext ==
  \/ \E p \in Callers, c \in LookupCurrencies :
       ~ContinuationIsNext /\ getAdaSpotPrice(p, c)
  \/ \E p \in Callers : ~ContinuationIsNext /\ getDetailedWallet(p, TestAddress)
  \/ \E p \in Callers, status \in RepoStatuses :
       \E data \in IF status = 200 THEN RepoBodies(calls[p].op, calls[p].arg)
                   ELSE {JUndefined} :
         ~ContinuationIsNext /\ transportAnswers(p, status, data)
  \/ \E p \in Callers : ~ContinuationIsNext /\ transportRejects(p)
  \/ \E p \in Callers : storeSpotPrice(p)
  \/ \E p \in Callers : ~ContinuationIsNext /\ sleepElapses(p)
  \/ ~ContinuationIsNext /\ tick

InitRepo ==
  /\ maxRetries \in RepoMaxRetriesValues
  /\ retryBaseDelayMs = DefaultRetryBaseDelayMs
  /\ ClientIdle
  /\ RepoIdle
  /\ ToolIdle
  /\ PureIdle

SpecRepo == InitRepo /\ [][RepoNext]_vars

\* the entry the cache holds for currency c after a lookup at time 0
FilledEntry(c) == Entry(c, SpotBody(c, "0.5"), 0)

\* a full cache, the most recently used entry first: lookups for USD and then
\* for CacheMax - 1 other fiat currencies have just returned
FullCache ==
  [i \in 1..CacheMax |->
     IF i = CacheMax THEN FilledEntry("USD") ELSE FilledEntry(Filler(i))]

\* the repository with a full cache, callers that have not called yet and a
\* client that does not retry
InitFull ==
  /\ maxRetries = 1
  /\ retryBaseDelayMs = DefaultRetryBaseDelayMs
  /\ ClientIdle
  /\ ToolIdle
  /\ PureIdle
  /\ now = 0
  /\ cache = FullCache
  /\ calls = [p \in Callers |-> IdleCall]
  /\ started = 0
  /\ fetched = {<<FullCache[i].key, FullCache[i].value>> : i \in 1..CacheMax}
  /\ touched = [i \in 1..CacheMax |-> FullCache[CacheMax + 1 - i].key]
  /\ lastEnd = [c \in LookupCurrencies \ {CryptoCurrencyADA} |->
                  IF c = "USD"
                  THEN [kind |-> "returned", fetches |-> 1, stored |-> TRUE,
                        value |-> SpotBody(c, "0.5"), at |-> 0]
                  ELSE NoEnd]

\* the callers look up fiat currencies; the backend answers 200 or 404
FullNext ==
  \/ \E p \in Callers, c \in LookupCurrencies \ {CryptoCurrencyADA} :
       ~ContinuationIsNext /\ getAdaSpotPrice(p, c)
  \/ \E p \in Callers, status \in {200, 404} :
       \E data \in IF status = 200 THEN RepoBodies(calls[p].op, calls[p].arg)
                   ELSE {JUndefined} :
         ~ContinuationIsNext /\ transportAnswers(p, status, data)
  \/ \E p \in Callers : storeSpotPrice(p)
  \/ ~ContinuationIsNext /\ tick

SpecFull == InitFull /\ [][FullNext]_vars

-----------------------------------------------------------------------------
(* Properties *)

\* a status the specification calls retryable
RetryableStatus(status) == status >= 500 \/ status = 429

\* a finished attempt that failed with a retryable status
RetryableFailure(m) == m.kind = "status" /\ RetryableStatus(m.status)

AllRetryableFailures(seq) == \A i \in 1..Len(seq) : RetryableFailure(seq[i])

Front(seq) == SubSeq(seq, 1, Len(seq) - 1)
Last(seq) == seq[Len(seq)]

\* C1: when the first k attempts (1 <= k < maxRetries) fail with a retryable
\* status the call goes on to attempt k+1, and when that attempt succeeds the
\* call returns its validated response after exactly k+1 invocations of fetch.
C1_RetryThenSuccess ==
  /\ (Len(injected) >= 1 /\ Len(injected) < maxRetries /\ AllRetryableFailures(injected))
       => pc \in {"sleep", "loop", "fetch", "json"}
  /\ (pc = "done" /\ Len(injected) >= 2 /\ AllRetryableFailures(Front(injected))
        /\ Last(injected).kind = "success")
       => /\ outcome = Returned(StripObject(Last(injected).data, SchemaOf(method)))
          /\ fetchCalls = Len(injected)
          /\ Len(injected) <= maxRetries

\* two 429 failures, then a success at the third attempt
C1_Witness ==
  /\ pc = "done"
  /\ Len(injected) = 3
  /\ injected[1].status = 429 /\ injected[2].status = 429
  /\ injected[3].kind = "success"
  /\ outcome.kind = "returned"
  /\ fetchCalls = 3

\* C2: a first attempt answered with a status that is not 2xx, not 429 and
\* below 500 ends the call after exactly one invocation of fetch with a
\* VesprApiError carrying that status, whatever maxRetries is.
C2_NoRetryOnClientError ==
  (Len(injected) >= 1 /\ injected[1].kind = "status"
     /\ ~RetryableStatus(injected[1].status))
    => /\ pc = "done"
       /\ fetchCalls = 1
       /\ outcome.kind = "thrown"
       /\ outcome.error.name = "VesprApiError"
       /\ outcome.error.statusCode = injected[1].status

\* a 418 at the first attempt of a call configured with four attempts
C2_Witness ==
  /\ maxRetries = 4
  /\ Len(injected) = 1 /\ injected[1].kind = "status" /\ injected[1].status = 418
  /\ pc = "done" /\ fetchCalls = 1
  /\ outcome.error.statusCode = 418

\* C3: once maxRetries (>= 1) attempts in a row have failed with retryable
\* statuses the call has ended after exactly maxRetries invocations of fetch,
\* throwing the error of the last attempt itself: the VesprApiError a single
\* failure with that status gives.
C3_ExhaustedThrowsLast ==
  (Len(injected) >= 1 /\ Len(injected) = maxRetries /\ AllRetryableFailures(injected))
    => /\ pc = "done"
       /\ fetchCalls = maxRetries
       /\ outcome = Thrown(VesprApiError(getErrorMessageForStatus(Last(injected).status),
                                         Last(injected).status, "none"))

\* 500, 429, 503 with maxRetries = 3: the 503 error is thrown
C3_Witness ==
  /\ maxRetries = 3
  /\ Len(injected) = 3
  /\ injected[1].status = 500 /\ injected[2].status = 429 /\ injected[3].status = 503
  /\ pc = "done"
  /\ outcome.kind = "thrown" /\ outcome.error.statusCode = 503

\* C4: with maxRetries 0 or 1 a call makes at least one invocation of fetch
\* and never a second one.
C4_AtLeastOneAttempt ==
  maxRetries \in {0, 1} => /\ fetchCalls <= 1
                           /\ pc = "done" => fetchCalls = 1

\* C5: a call ends by returning a validated response or by throwing a
\* VesprApiError, never by throwing anything else.
C5_OnlyTypedErrors ==
  pc = "done" => \/ outcome.kind = "returned"
                 \/ outcome.kind = "thrown" /\ outcome.error.name = "VesprApiError"

\* the error an attempt that met m throws
ErrorOfAttempt(m, e) ==
  /\ e.name = "VesprApiError"
  /\ CASE m.kind = "status" ->
            e.statusCode = m.status /\ e.message = getErrorMessageForStatus(m.status)
       [] m.kind = "timeout" ->
            e.statusCode = NoStatus /\ e.message = "Request timed out. Try again."
       [] m.kind = "network" ->
            /\ e.statusCode = NoStatus
            /\ e.message = "Unable to connect to API. Check your internet connection."
       [] m.kind = "parse" ->
            e.statusCode = NoStatus /\ e.message = "Failed to parse API response."
       [] m.kind = "invalid" ->
            e.statusCode = NoStatus /\ Contains(e.message, "Invalid API response: ")
       [] OTHER -> FALSE

\* C6: an attempt is followed by another one only if it failed with a status
\* >= 500 or 429; an attempt that met a timeout, a network failure, a parse
\* failure, a shape mismatch or any other status ends the call at once with
\* the error of that attempt, also after earlier attempts were retried.
C6_OnlyTransientRetried ==
  /\ \A i \in 1..Len(injected) : i < fetchCalls => RetryableFailure(injected[i])
  /\ (Len(injected) >= 1 /\ Last(injected).kind # "success"
        /\ ~RetryableFailure(Last(injected)))
       => /\ pc = "done"
          /\ fetchCalls = Len(injected)
          /\ outcome.kind = "thrown"
          /\ ErrorOfAttempt(Last(injected), outcome.error)

\* 500, then 404: two invocations and the 404 error
C6_Witness ==
  /\ Len(injected) = 2
  /\ injected[1].kind = "status" /\ injected[1].status = 500
  /\ injected[2].kind = "status" /\ injected[2].status = 404
  /\ pc = "done" /\ fetchCalls = 2
  /\ outcome.kind = "thrown" /\ outcome.error.statusCode = 404

C8_TimeoutAborts ==
  \A a \in 0..(Len(timers) - 1) :
    /\ timers[a + 1] = "fired"
         => /\ a \in aborted
            /\ Len(injected) > a
                 => /\ injected[a + 1].kind = "timeout"
                    /\ pc = "done"
                    /\ outcome.kind = "thrown"
                    /\ outcome.error.name = "VesprApiError"
                    /\ Contains(outcome.error.message, "Request timed out")
    /\ a \in late => timers[a + 1] = "fired" /\ outcome.kind # "returned"

\* the timer fired, the response came late, and the call ended with the timeout error
C8_Witness ==
  /\ pc = "done"
  /\ Len(timers) = 2 /\ timers[2] = "fired" /\ 1 \in aborted /\ 1 \in late
  /\ injected[2].kind = "timeout"
  /\ outcome.kind = "thrown"
  /\ outcome.error.message = "Request timed out. Try again."

\* C9: once requestOnce has received the response or the rejection of fetch,
\* on every path, no timer it scheduled is pending: a pending timer belongs to
\* the attempt that is waiting for fetch.
C9_TimerReleased ==
  \A a \in 0..(Len(timers) - 1) :
    timers[a + 1] = "pending" => pc = "fetch" /\ a = attempt

\* a successful second attempt: both timers were cleared
C9_Witness ==
  /\ pc = "done"
  /\ outcome.kind = "returned"
  /\ timers = << "cleared", "cleared" >>

\* C10: the i-th wait of a call (i = 0, 1, ...) is retryBaseDelayMs * 2^i: the
\* wait that follows the failed attempt with index i depends on i alone.
C10_ExponentialBackoff ==
  /\ \A i \in 1..Len(waits) : waits[i] = retryBaseDelayMs * 2^(i - 1)
  /\ pc = "sleep" => Len(waits) = attempt + 1

\* three waits of a call: base, 2*base, 4*base
C10_Witness ==
  /\ Len(waits) = 3
  /\ retryBaseDelayMs = 1000
  /\ waits = << 1000, 2000, 4000 >>
  /\ pc = "fetch"

\* C19: a 2xx wallet-detail response without rewards_lovelace, handles and
\* tokens is returned with rewards "0", no handles and no tokens.
C19_MissingOptionalDefaults ==
  (method = "POST" /\ Len(injected) >= 1
     /\ Last(injected).kind \in {"success", "invalid"}
     /\ Last(injected).data = MissingOptionalResponse)
    => outcome = Returned(JObj([lovelace |-> JStr("1000000"),
                                rewards_lovelace |-> JStr("0"),
                                handles |-> JArr(<<>>),
                                tokens |-> JArr(<<>>)]))

\* C20: a wallet-detail response with a token whose ticker is null is returned,
\* and the token is returned with ticker null.
C20_NullTickerPreserved ==
  (method = "POST" /\ Len(injected) >= 1
     /\ Last(injected).kind \in {"success", "invalid"}
     /\ Last(injected).data = NullTickerResponse)
    => /\ pc = "done"
       /\ outcome.kind = "returned"
       /\ Len(outcome.value.fields.tokens.items) = 1
       /\ outcome.value.fields.tokens.items[1].fields.ticker = JNull
       /\ outcome.value = NullTickerResponse

\* the null-ticker response was returned by a wallet-detail call
C20_Witness ==
  /\ method = "POST"
  /\ pc = "done"
  /\ outcome.kind = "returned"
  /\ Len(injected) >= 1
  /\ Last(injected).data = NullTickerResponse
  /\ outcome.value.fields.tokens.items[1].fields.ticker = JNull

\* ---------------------------------------------------------------------------
(* Properties of the repository *)

\* caller p's call is a spot price lookup for a currency other than ADA
NonReferenceLookup(p) ==
  calls[p].op = "spot" /\ calls[p].arg # CryptoCurrencyADA

\* caller p's lookup started less than the time to live after the lookup for
\* the same currency that finished last before it had stored its value
FollowsStore(p) ==
  /\ NonReferenceLookup(p)
  /\ calls[p].prev.kind = "returned"
  /\ calls[p].prev.stored
  /\ calls[p].since < CacheTtl

\* C11 as stated: two consecutive lookups for the same currency other than
\* ADA, less than the time to live apart, use fetch exactly once in total and
\* the second returns the value the first stored.
C11_ExactlyOnceInTotal ==
  \A p \in Callers :
    FollowsStore(p)
      => /\ calls[p].pc = "done"
         /\ calls[p].outcome = Returned(calls[p].prev.value)
         /\ calls[p].prev.fetches + calls[p].fetches = 1

\* C11 amended: the second lookup does not use fetch and returns the value the
\* first stored, so the two use fetch as often as the first did: exactly once
\* when the first attempt of the first lookup succeeded.
C11_SecondServedFromCache ==
  \A p \in Callers :
    FollowsStore(p)
      => /\ calls[p].pc = "done"
         /\ calls[p].hit
         /\ calls[p].outcome = Returned(calls[p].prev.value)
         /\ calls[p].fetches = 0
         /\ calls[p].prev.fetches >= 1
         /\ calls[p].prev.fetches = 1
              => calls[p].prev.fetches + calls[p].fetches = 1

\* a lookup served from the cache half a time to live after the store
C11_Witness ==
  \E p \in Callers :
    /\ FollowsStore(p)
    /\ calls[p].since = TickMs
    /\ calls[p].prev.fetches = 1
    /\ calls[p].fetches = 0
    /\ calls[p].outcome = Returned(SpotBody(calls[p].arg, "0.6"))

\* C12: a lookup for ADA never uses fetch, never reads or writes the cache and
\* returns the currency ADA with spot "1" and both earlier prices null.
C12_ReferenceBypass ==
  \A p \in Callers :
    (calls[p].op = "spot" /\ calls[p].arg = "ADA")
      => /\ calls[p].pc = "done"
         /\ calls[p].fetches = 0
         /\ calls[p].gets = 0 /\ calls[p].sets = 0 /\ ~calls[p].hit
         /\ calls[p].outcome =
              Returned(JObj([currency |-> JStr("ADA"), spot |-> JStr("1"),
                             spot1hAgo |-> JNull, spot24hAgo |-> JNull]))

\* a lookup for ADA answered while the cache holds an entry
C12_Witness ==
  \E p \in Callers :
    /\ calls[p].op = "spot" /\ calls[p].arg = "ADA"
    /\ calls[p].pc = "done"
    /\ calls[p].outcome.kind = "returned"
    /\ Len(cache) >= 1

Entries(ch) == {ch[i] : i \in 1..Len(ch)}

\* caller p's lookup started after the lookup for the same currency that
\* finished last before it had failed, having used fetch
FollowsFailure(p) ==
  /\ NonReferenceLookup(p)
  /\ calls[p].prev.kind = "thrown"
  /\ calls[p].prev.fetches >= 1

FollowsExpiry(p) ==
  /\ NonReferenceLookup(p)
  /\ calls[p].prev.kind = "returned"
  /\ calls[p].since > CacheTtl

\* C15: a lookup never returns a value stored more than the time to live (10
\* minutes) earlier; a lookup after the expiry of the entry uses fetch again;
\* a hit leaves the age of the entry as it was.
C15_BoundedStaleness ==
  /\ \A i \in 1..Len(cache) : cache[i].start = cache[i].born
  /\ \A p \in Callers :
       NonReferenceLookup(p)
         => /\ calls[p].hit => calls[p].age <= 10 * 60 * 1000
            /\ FollowsExpiry(p) => ~calls[p].hit /\ calls[p].fetches >= 1

\* a value stored, read from the cache later, and fetched again by the lookup
\* one and a half times to live after the store
C15_Witness ==
  \E p \in Callers :
    /\ FollowsExpiry(p)
    /\ ~calls[p].prev.stored
    /\ calls[p].since = 3 * TickMs
    /\ calls[p].pc = "done"
    /\ calls[p].fetches = 1
    /\ calls[p].outcome.kind = "returned"

\* C16: every call of getDetailedWallet uses fetch at least once and never
\* reads or writes the spot price cache.
C16_WalletNeverCached ==
  \A p \in Callers :
    calls[p].op = "wallet"
      => /\ calls[p].fetches >= 1
         /\ calls[p].gets = 0 /\ calls[p].sets = 0 /\ ~calls[p].hit

\* C17: under every interleaving of the callers each entry of the cache is a
\* validated response that a successful fetch for its currency returned, each
\* currency has at most one entry, and a lookup returns only a value fetched
\* for its own currency.
C17_CacheNeverCorrupted ==
  /\ Cardinality(Keys(cache)) = Len(cache)
  /\ \A i \in 1..Len(cache) :
       /\ <<cache[i].key, cache[i].value>> \in fetched
       /\ SafeParseIssues(cache[i].value, AdaSpotPriceResponseSchema) = <<>>
  /\ \A p \in Callers :
       (NonReferenceLookup(p) /\ calls[p].outcome.kind = "returned")
         => /\ <<calls[p].arg, calls[p].outcome.value>> \in fetched
            /\ \A c \in LookupCurrencies \ {calls[p].arg} :
                 <<c, calls[p].outcome.value>> \notin fetched

\* two lookups for one currency that ran side by side and stored different
\* values, beside an entry for the other currency
C17_Witness ==
  /\ \A p \in Callers :
       /\ NonReferenceLookup(p)
       /\ calls[p].arg = "USD"
       /\ calls[p].prev.kind = "none"
       /\ calls[p].pc = "done"
       /\ calls[p].sets = 1
  /\ calls[1].outcome # calls[2].outcome
  /\ Keys(cache) = {"USD", "EUR"}

\* the error the attempt of a call throws that met m
ThrownBy(m, op) ==
  CASE m.kind = "status" -> statusError(m.status)
    [] m.kind = "network" -> handleFetchError("TypeError")
    [] m.kind = "invalid" ->
         validationError(SafeParseIssues(m.data, SchemaOf(MethodOf(op))))

\* the outcome of a call whose attempts met the outcomes in met, the last of
\* them ending the call
OutcomeOf(met, op) ==
  IF met = <<>> THEN Thrown(Undefined)
  ELSE IF Last(met).kind = "success"
       THEN Returned(StripObject(Last(met).data, SchemaOf(MethodOf(op))))
       ELSE Thrown(ThrownBy(Last(met), op))

\* caller p's call went to the client
ClientCall(p) ==
  /\ calls[p].op # "none"
  /\ ~calls[p].hit
  /\ ~(calls[p].op = "spot" /\ calls[p].arg = CryptoCurrencyADA)

\* C18: the calls of concurrent callers are independent and the retry loop of
\* each is sequential: a call has at most one attempt or one backoff wait in
\* flight, and its number of attempts, its waits and its outcome follow from
\* the outcomes of its own attempts alone.
C18_CallsIndependent ==
  \A p \in Callers :
    LET cl == calls[p] IN
    ClientCall(p)
      => /\ cl.inflight + cl.sleeping <= 1
         /\ (cl.pc = "fetch") <=> (cl.inflight = 1)
         /\ (cl.pc = "sleep") <=> (cl.sleeping = 1)
         /\ cl.fetches = Len(cl.met) + cl.inflight
         /\ cl.attempt = Len(cl.waits) - cl.sleeping
         /\ \A i \in 1..Len(cl.waits) : cl.waits[i] = DelayMs(i - 1)
         /\ Len(cl.waits) =
              Cardinality({i \in 1..Len(cl.met) :
                             RetryableFailure(cl.met[i]) /\ i < maxRetries})
         /\ cl.pc \in {"store", "done"}
              => /\ cl.outcome = OutcomeOf(cl.met, cl.op)
                 /\ AllRetryableFailures(Front(cl.met))
                 /\ (cl.met # <<>> /\ RetryableFailure(Last(cl.met)))
                      => Len(cl.met) = maxRetries
         /\ cl.pc \in {"fetch", "sleep"}
              => /\ AllRetryableFailures(cl.met)
                 /\ Len(cl.met) < maxRetries
                 /\ cl.outcome = Pending

\* one caller waits for its backoff while the second attempt of the other is
\* in flight
C18_Witness ==
  /\ calls[1].op = "wallet" /\ calls[1].pc = "sleep" /\ calls[1].attempt = 0
  /\ calls[2].op = "spot" /\ calls[2].pc = "fetch" /\ calls[2].attempt = 1
  /\ calls[2].met = << Met("status", 503, JUndefined) >>

\* C14: the cache never holds more than 100 entries, and an entry leaves it
\* only when a lookup found it expired or when a new currency is stored in
\* the full cache, and then the entry read or written least recently leaves.
C14_BoundedLeastRecentlyUsed ==
  [][LET gone == Keys(cache) \ Keys(cache')
         new == Keys(cache') \ Keys(cache) IN
     /\ Len(cache') <= 100
     /\ Cardinality(Keys(cache')) = Len(cache')
     /\ gone # {}
          => \/ /\ new = {}
                /\ \E i \in 1..Len(cache) :
                     gone = {cache[i].key} /\ now - cache[i].start > CacheTtl
             \/ /\ Len(cache) = 100
                /\ Cardinality(new) = 1
                /\ gone = {touched[1]}]_vars

\* the full cache after USD, stored first, was read and EUR was then stored:
\* the entry stored second has left
C14_Witness ==
  /\ Len(cache) = 100
  /\ cache[1].key = "EUR"
  /\ cache[2].key = "USD"
  /\ Filler(CacheMax - 1) \notin Keys(cache)
  /\ Filler(CacheMax - 2) \in Keys(cache)

\* ---------------------------------------------------------------------------
(* Properties of one client call, continued *)

NewEvents == {log'[i].event : i \in (Len(log) + 1)..Len(log')}

\* C22: a response with a 2xx status has its body parsed and then validated;
\* a response with any other status ends the attempt with an error carrying
\* that status, without parsing or validating the body; the body is parsed
\* only after fetch resolved and validated only after the parse succeeded.
C22_StatusBeforeBody ==
  [][/\ \A status \in Statuses :
          fetchResolves(status)
            => IF status >= 200 /\ status <= 299
               THEN /\ pc' = "json"
                    /\ injected' = injected /\ lastError' = lastError
                    /\ NewEvents = {}
               ELSE /\ pc' \in {"done", "sleep"}
                    /\ lastError' = VesprApiError(lastError'.message, status, "none")
                    /\ Len(injected') = Len(injected) + 1
                    /\ Last(injected') = Met("status", status, JUndefined)
                    /\ NewEvents \cap {"api_success", "api_parse_error",
                                       "api_validation_error"} = {}
     /\ pc' = "json" => pc = "fetch"
     /\ (Len(injected') > Len(injected)
           /\ Last(injected').kind \in {"success", "invalid", "parse"})
          => pc = "json"
     /\ NewEvents \cap {"api_success", "api_parse_error", "api_validation_error"} # {}
          => pc = "json"]_vars

\* a 503 whose body was not read, then a 200 whose body was parsed and validated
C22_Witness ==
  /\ pc = "done"
  /\ Len(injected) = 2
  /\ injected[1] = Met("status", 503, JUndefined)
  /\ injected[2].kind = "success"
  /\ outcome.kind = "returned"

-----------------------------------------------------------------------------
(* One client call whose awaited operations all settle *)

\* the awaited fetch settles: it resolves, or rejects with a network failure
\* or, once its timer has aborted the signal, with the AbortError
fetchSettles ==
  \/ \E status \in Statuses : fetchResolves(status)
  \/ fetchRejectsAbort
  \/ fetchRejectsNetwork

\* the awaited response.json() settles
jsonSettles ==
  \/ \E data \in Bodies : jsonResolves(data)
  \/ \E errorName \in {"SyntaxError", "TypeError"} : jsonRejects(errorName)

\* the code that runs without awaiting anything runs, every awaited
\* operation of the transport settles and every backoff timer runs
Settling ==
  /\ WF_vars(requestOnce)
  /\ WF_vars(throwLastError)
  /\ WF_vars(fetchSettles)
  /\ WF_vars(jsonSettles)
  /\ WF_vars(sleep)

SpecFair == Spec /\ Settling

\* the call has returned the first success or thrown the failure of its
\* last attempt
EndedByAttempt ==
  /\ pc = "done"
  /\ Len(injected) >= 1
  /\ \A i \in 1..(Len(injected) - 1) : injected[i].kind # "success"
  /\ IF Last(injected).kind = "success"
     THEN outcome = Returned(StripObject(Last(injected).data, SchemaOf(method)))
     ELSE outcome.kind = "thrown" /\ ErrorOfAttempt(Last(injected), outcome.error)

\* C28 (as stated): a call invokes fetch at most maxRetries times, and when
\* every awaited operation settles it ends by returning the first success or
\* by throwing the failure of the last attempt.
C28_EndsByAttempt ==
  /\ [](maxRetries >= 0 => fetchCalls <= maxRetries)
  /\ (pc # "idle") ~> EndedByAttempt

\* C28, what holds: the bound on the invocations, the end of every call when
\* every awaited operation settles, and, for maxRetries >= 1, the end by the
\* first success or the last failure.
C28_EndsWithinBound ==
  /\ [](fetchCalls <= maxRetries \/ fetchCalls = 0)
  /\ (pc # "idle") ~> (pc = "done")
  /\ [](pc = "done" => fetchCalls = Len(injected))
  /\ []((pc = "done" /\ maxRetries >= 1) => EndedByAttempt)

\* four retryable failures with maxRetries = 4: the call ends with the last
C28_Witness ==
  /\ maxRetries = 4
  /\ fetchCalls = 4
  /\ pc = "done"
  /\ AllRetryableFailures(injected)
  /\ EndedByAttempt

-----------------------------------------------------------------------------
(* The log of one client call *)

\* the positions in the log of the events with one of the given names
EventsAt(names) == {k \in 1..Len(log) : log[k].event \in names}

\* how many of the given positions are at or before k
OrdinalOf(k, positions) == Cardinality({j \in positions : j <= k})

\* what the i-th api_retry event, at position k of the log, has to be: the
\* warning after the failure of attempt i and before attempt i + 1
RetryWarning(k, i) ==
  /\ log[k].level = "warn"
  /\ log[k].attempt = i
  /\ log[k].maxRetries = maxRetries
  /\ log[k].delayMs = retryBaseDelayMs * Pow2(i - 1)
  /\ i <= Len(injected)
  /\ ErrorOfAttempt(injected[i], VesprApiError(log[k].error, injected[i].status, "none"))
  /\ k > 1 /\ log[k - 1].level = "error"
  /\ OrdinalOf(k, EventsAt({"api_request"})) = i
  /\ i <= Len(waits) /\ waits[i] = log[k].delayMs
  /\ k = Len(log) => (pc \in {"sleep", "loop"} /\ fetchCalls = i)
  /\ k < Len(log) => log[k + 1].event = "api_request"

\* C29 (as stated): api_retry is logged once before each retry and never
\* otherwise: a call logs one warning less than it invokes fetch, the i-th
\* warning follows the failure of attempt i, precedes the wait and attempt
\* i + 1 and carries i, maxRetries, the wait base * 2^(i-1) and the message of
\* the error; no warning follows the last attempt.
C29_WarningBeforeEachRetry ==
  /\ pc = "done" => Cardinality(EventsAt({"api_retry"})) = fetchCalls - 1
  /\ \A k \in EventsAt({"api_retry"}) : RetryWarning(k, OrdinalOf(k, EventsAt({"api_retry"})))
  /\ Cardinality(EventsAt({"api_retry"})) = Len(waits)
  /\ pc = "done" => (Len(log) > 0 => Last(log).event # "api_retry")

\* C29, what holds: the same for every call that invokes fetch at all.
C29_WarningBeforeEachRetryOfAttempts ==
  /\ (pc = "done" /\ fetchCalls >= 1) => Cardinality(EventsAt({"api_retry"})) = fetchCalls - 1
  /\ fetchCalls = 0 => EventsAt({"api_retry"}) = {}
  /\ \A k \in EventsAt({"api_retry"}) : RetryWarning(k, OrdinalOf(k, EventsAt({"api_retry"})))
  /\ Cardinality(EventsAt({"api_retry"})) = Len(waits)
  /\ pc = "done" => (Len(log) > 0 => Last(log).event # "api_retry")

\* 503, 429, then a success with maxRetries >= 3: two warnings
C29_Witness ==
  /\ pc = "done"
  /\ fetchCalls = 3
  /\ Len(injected) = 3
  /\ injected[1].status = 503 /\ injected[2].status = 429
  /\ injected[3].kind = "success"
  /\ Cardinality(EventsAt({"api_retry"})) = 2

\* the events of the attempts: the log without the warnings of request()
IsAttemptEvent(e) == e.event # "api_retry"

AttemptLog == SelectSeq(log, IsAttemptEvent)

\* the level and the name of the event that completes an attempt that met m
CompletionOf(m) ==
  CASE m.kind = "success" -> <<"info", "api_success">>
    [] m.kind = "timeout" -> <<"error", "api_timeout">>
    [] m.kind = "network" -> <<"error", "api_network_error">>
    [] m.kind = "status" -> <<"error", "api_error">>
    [] m.kind = "parse" -> <<"error", "api_parse_error">>
    [] m.kind = "invalid" -> <<"error", "api_validation_error">>

\* C30: every attempt logs api_request at info level and then, when it
\* completes, exactly one more event: api_success at info level if it returns
\* a validated response, and otherwise the one error-level event of its
\* failure (timeout, network, status, parse or validation); no attempt
\* completes without an event and none logs both a success and an error.
C30_OneCompletionEvent ==
  /\ Len(AttemptLog) = fetchCalls + Len(injected)
  /\ fetchCalls = Len(injected) + (IF pc \in {"fetch", "json"} THEN 1 ELSE 0)
  /\ \A i \in 1..fetchCalls :
       /\ AttemptLog[2 * i - 1].level = "info"
       /\ AttemptLog[2 * i - 1].event = "api_request"
       /\ AttemptLog[2 * i - 1].method = method
  /\ \A i \in 1..Len(injected) :
       /\ <<AttemptLog[2 * i].level, AttemptLog[2 * i].event>> = CompletionOf(injected[i])
       /\ injected[i].kind = "status" => AttemptLog[2 * i].statusCode = injected[i].status
  /\ \A k \in 1..Len(log) :
       log[k].level = "error" <=>
         log[k].event \in {"api_timeout", "api_network_error", "api_error",
                           "api_parse_error", "api_validation_error"}

\* a timeout after a retried 503: api_request, api_error, api_request,
\* api_timeout
C30_Witness ==
  /\ pc = "done"
  /\ Len(injected) = 2
  /\ injected[1].kind = "status" /\ injected[1].status = 503
  /\ injected[2].kind = "timeout"
  /\ Len(AttemptLog) = 4
  /\ AttemptLog[4].event = "api_timeout"

-----------------------------------------------------------------------------
(* The utility functions, each applied to one input *)

\* the characters String.prototype.trim removes that occur in the inputs
WhiteSpace == {" ", "\t", "\n"}

\* String.prototype.trimStart and trimEnd
RECURSIVE TrimStart(_)
TrimStart(s) ==
  IF Len(s) > 0 /\ SubSeq(s, 1, 1) \in WhiteSpace THEN TrimStart(SubSeq(s, 2, Len(s))) ELSE s

RECURSIVE TrimEnd(_)
TrimEnd(s) ==
  IF Len(s) > 0 /\ SubSeq(s, Len(s), Len(s)) \in WhiteSpace
  THEN TrimEnd(SubSeq(s, 1, Len(s) - 1))
  ELSE s

\* String.prototype.trim
Trim(s) == TrimEnd(TrimStart(s))

\* String.prototype.startsWith
StartsWith(s, prefix) == Len(s) >= Len(prefix) /\ SubSeq(s, 1, Len(prefix)) = prefix

MIN_ADDRESS_LENGTH == 50
MAINNET_PREFIX == "addr1"
TESTNET_PREFIX == "addr_test1"

\* isValidCardanoAddress measuring the string as it was passed
isValidCardanoAddress_noTrim(address) ==
  IF address.t # "string" THEN FALSE
  ELSE IF Len(address.v) < MIN_ADDRESS_LENGTH THEN FALSE
  ELSE IF ~StartsWith(address.v, MAINNET_PREFIX) /\ ~StartsWith(address.v, TESTNET_PREFIX)
  THEN FALSE
  ELSE TRUE

\* isValidCardanoAddress: address is any value a caller can pass
isValidCardanoAddress(address) ==
  IF address.t # "string" THEN FALSE
  ELSE LET trimmed == Trim(address.v) IN
       IF Len(trimmed) < MIN_ADDRESS_LENGTH THEN FALSE
       ELSE IF ~StartsWith(trimmed, MAINNET_PREFIX) /\ ~StartsWith(trimmed, TESTNET_PREFIX)
       THEN FALSE
       ELSE TRUE

\* a string of n characters of the bech32 alphabet, for n up to 64
Chars(n) == SubSeq("qpzry9x8gf2tvdw0s3jn54khce6mua7lqpzry9x8gf2tvdw0s3jn54khce6mua7l", 1, n)

\* the addresses of the tests of isValidCardanoAddress
MainnetAddress ==
  "addr1qy8ac7qqy0vtulyl7wntmsxc6wex80gvcyjy33qffrhm7sh927ysx5sftuw0dlft05dz3c7revpf7jx0xnlcjz3g69mq4afdhv"
TestnetAddress ==
  "addr_test1qz2fxv2umyhttkxyxp8x0dlpdt3k6cwng5pxj3jhsydzer3jcu5d8ps7zex2k2xt3uqxgjqnnj83ws8lhrn648jjxtwq2ytjqp"
StakeAddress == "stake1uyehkck0lajq8gr28t9uxnuvgcqmny6k328vp686mhf7hcgrf8swf"

\* how the addresses begin that the validator is applied to, and what
\* surrounds them
AddressStarts == {"addr1", "addr_test1", "stake1", "addr", "Addr1", "addr_test", "1addr1"}
Margins == {"", " ", "  ", "\t\n"}

\* the strings the validator is applied to: every start, padded to just
\* below, at and above the minimum length, inside every pair of margins,
\* and the strings of the tests
AddressStrings ==
  {lead \o start \o Chars(length - Len(start)) \o trail :
     lead \in Margins, trail \in Margins, start \in AddressStarts,
     length \in (MIN_ADDRESS_LENGTH - 1)..(MIN_ADDRESS_LENGTH + 1)}
  \cup {lead \o s \o trail :
          lead \in Margins, trail \in Margins,
          s \in {MainnetAddress, TestnetAddress, StakeAddress, "addr1abc", "addr1", ""}}
  \cup {"   ", "addr1 " \o Chars(MIN_ADDRESS_LENGTH), MAINNET_PREFIX \o Chars(8) \o " " \o Chars(40)}

\* the values the validator is applied to, strings or not
AddressValues ==
  {JStr(s) : s \in AddressStrings} \cup {JNull, JUndefined, JNum(123), JArr(<<>>), JObj(<<>>)}

\* isValidCardanoAddress(address) is called
applyIsValidCardanoAddress ==
  /\ fn = "isValidCardanoAddress"
  /\ output = <<>>
  /\ output' = Returned(isValidCardanoAddress(input[1]))
  /\ UNCHANGED <<maxRetries, retryBaseDelayMs, clientVars, repoVars, toolVars, fn, input>>

\* BigInt values: the decimal digits of a non-negative integer, most
\* significant first, without leading zeros; zero is <<0>>
DigitChars == {ToString(d) : d \in 0..9}

DigitOf(c) == CHOOSE d \in 0..9 : ToString(d) = c

Norm(ds) ==
  LET nonzero == {i \in 1..Len(ds) : ds[i] # 0} IN
  IF nonzero = {} THEN <<0>>
  ELSE SubSeq(ds, CHOOSE i \in nonzero : \A j \in nonzero : i <= j, Len(ds))

\* the digits of a string of decimal digits
DigitsOf(s) == [i \in 1..Len(s) |-> DigitOf(CharAt(s, i))]

\* whether BigInt(s) is taken as a decimal literal without sign
IsDigits(s) == \A i \in 1..Len(s) : CharAt(s, i) \in DigitChars

\* the SyntaxError of BigInt(s) for a string that is no integer literal
BigIntSyntaxError(s) ==
  [name |-> "SyntaxError", message |-> "Cannot convert " \o s \o " to a BigInt",
   statusCode |-> NoStatus, originalError |-> "none"]

\* BigInt(s) for a string of decimal digits
BigIntOf(s) == Norm(DigitsOf(s))

\* the digits ds[lo..hi] as a string
RECURSIVE DigitString(_, _, _)
DigitString(ds, lo, hi) ==
  IF lo > hi THEN ""
  ELSE IF lo = hi THEN ToString(ds[lo])
  ELSE DigitString(ds, lo, (lo + hi) \div 2) \o DigitString(ds, (lo + hi) \div 2 + 1, hi)

\* BigInt.prototype.toString
BigIntToString(ds) == DigitString(ds, 1, Len(ds))

\* a < b, a = b, a > b as -1, 0, 1
Cmp(a, b) ==
  IF Len(a) < Len(b) THEN 0 - 1
  ELSE IF Len(a) > Len(b) THEN 1
  ELSE LET differ == {i \in 1..Len(a) : a[i] # b[i]} IN
       IF differ = {} THEN 0
       ELSE LET i == CHOOSE i \in differ : \A j \in differ : i <= j IN
            IF a[i] < b[i] THEN 0 - 1 ELSE 1

\* a - b for a >= b, digit by digit: a borrow reaches a digit from the next
\* lower digit that is too small, through digits that are equal
Sub(a, b) ==
  LET shift == Len(a) - Len(b)
      bd(i) == IF i > shift THEN b[i - shift] ELSE 0
      borrow(i) == \E j \in (i + 1)..Len(a) :
                     /\ a[j] < bd(j)
                     /\ \A k \in (i + 1)..(j - 1) : a[k] = bd(k)
      digit(i) == a[i] - bd(i) - (IF borrow(i) THEN 1 ELSE 0)
  IN  Norm([i \in 1..Len(a) |-> IF digit(i) < 0 THEN digit(i) + 10 ELSE digit(i)])

\* how often b fits into r, and what is left
RECURSIVE Fit(_, _, _)
Fit(r, b, count) ==
  IF Cmp(r, b) >= 0 THEN Fit(Sub(r, b), b, count + 1) ELSE [count |-> count, r |-> r]

\* long division of the digits a[lo..hi] by b, r being the remainder the
\* digits before them have left: the digits of the quotient and the remainder
RECURSIVE LongDivision(_, _, _, _, _)
LongDivision(a, b, lo, hi, r) ==
  IF lo = hi
  THEN LET fit == Fit(Norm(Append(r, a[lo])), b, 0)
       IN  [quotient |-> <<fit.count>>, remainder |-> fit.r]
  ELSE LET high == LongDivision(a, b, lo, (lo + hi) \div 2, r)
           low == LongDivision(a, b, (lo + hi) \div 2 + 1, hi, high.remainder)
       IN  [quotient |-> high.quotient \o low.quotient, remainder |-> low.remainder]

\* value / divisor and value % divisor of non-negative BigInts
DivMod(value, divisor) ==
  LET division == LongDivision(value, divisor, 1, Len(value), <<0>>)
  IN  [quotient |-> Norm(division.quotient), remainder |-> division.remainder]

\* n zeros, for n up to 32
Zeros(n) == SubSeq("00000000000000000000000000000000", 1, n)

\* String.prototype.padStart(targetLength, "0")
PadStart(s, targetLength) == Zeros(targetLength - Len(s)) \o s

\* BigInt(1_000_000)
OneMillion == <<1, 0, 0, 0, 0, 0, 0>>

\* lovelaceToAda(lovelace): what it returns or throws
lovelaceToAda(lovelace) ==
  IF ~IsDigits(lovelace) THEN Thrown(BigIntSyntaxError(lovelace))
  ELSE LET value == BigIntOf(lovelace)
           division == DivMod(value, OneMillion)
           ada == division.quotient
           remainder == division.remainder
           decimals == PadStart(BigIntToString(remainder), 6)
       IN  Returned(BigIntToString(ada) \o "." \o decimals)

\* the largest exponent for which the Number 10 ** decimals is the integer
\* 10^decimals
MaxExactPowerOfTen == 22

\* the two Numbers next to 10^23, which is no Number itself
BelowTenTo23 == BigIntOf("99999999999999991611392")
AboveTenTo23 == BigIntOf("100000000000000008388608")

\* BigInt(10 ** decimals) for 1 <= decimals <= 23: the power is computed in
\* floating point, exactly while it is a Number and as one of the two
\* neighbouring Numbers when it is not
BigIntTenToThe(decimals) ==
  IF decimals <= MaxExactPowerOfTen
  THEN {BigIntOf("1" \o Zeros(decimals))}
  ELSE {BelowTenTo23, AboveTenTo23}

\* formatTokenAmount(quantity, decimals): what it can return or throw
formatTokenAmount(quantity, decimals) ==
  IF decimals = 0 THEN {Returned(quantity)}
  ELSE IF ~IsDigits(quantity) THEN {Thrown(BigIntSyntaxError(quantity))}
  ELSE {LET value == BigIntOf(quantity)
            division == DivMod(value, divisor)
            whole == division.quotient
            remainder == division.remainder
            decimalPart == PadStart(BigIntToString(remainder), decimals)
        IN  Returned(BigIntToString(whole) \o "." \o decimalPart)
          : divisor \in BigIntTenToThe(decimals)}

\* the amounts that are converted: small and large ones, with digits on
\* both sides of the decimal point, and the amounts of the README example
Amounts ==
  {head \o Zeros(k) \o tail :
     head \in {"1", "9", "50", "123"}, k \in {0, 1, 5, 6, 17, 22},
     tail \in {"", "7", "000001"}}
  \cup {"0", "999999", "5000000000", "100000000", "1000000", "45000000000000000"}

\* the decimals of the tokens that are converted
TokenDecimals == {0, 1, 6, 18, 22, 23}

\* lovelaceToAda(lovelace) is called
applyLovelaceToAda ==
  /\ fn = "lovelaceToAda"
  /\ output = <<>>
  /\ output' = lovelaceToAda(input[1])
  /\ UNCHANGED <<maxRetries, retryBaseDelayMs, clientVars, repoVars, toolVars, fn, input>>

\* formatTokenAmount(quantity, decimals) is called
applyFormatTokenAmount ==
  /\ fn = "formatTokenAmount"
  /\ output = <<>>
  /\ output' \in formatTokenAmount(input[1], input[2])
  /\ UNCHANGED <<maxRetries, retryBaseDelayMs, clientVars, repoVars, toolVars, fn, input>>

\* the status codes the mapper is applied to
StatusCodes == 100..599

\* getErrorMessageForStatus(statusCode) is called
applyGetErrorMessageForStatus ==
  /\ fn = "getErrorMessageForStatus"
  /\ output = <<>>
  /\ output' = Returned(getErrorMessageForStatus(input[1]))
  /\ UNCHANGED <<maxRetries, retryBaseDelayMs, clientVars, repoVars, toolVars, fn, input>>

\* the applications that are checked: a function and its arguments
Applications ==
  {<<"getErrorMessageForStatus", <<statusCode>> >> : statusCode \in StatusCodes}
  \cup {<<"isValidCardanoAddress", <<address>> >> : address \in AddressValues}
  \cup {<<"lovelaceToAda", <<lovelace>> >> : lovelace \in Amounts \cup {"abc"}}
  \cup {<<"formatTokenAmount", <<quantity, decimals>> >> :
          quantity \in Amounts \cup {"abc"}, decimals \in TokenDecimals}

PureNext ==
  \/ applyGetErrorMessageForStatus
  \/ applyIsValidCardanoAddress
  \/ applyLovelaceToAda
  \/ applyFormatTokenAmount

InitPure ==
  /\ maxRetries = 1
  /\ retryBaseDelayMs = DefaultRetryBaseDelayMs
  /\ ClientIdle
  /\ RepoIdle
  /\ ToolIdle
  /\ \E application \in Applications :
       /\ fn = application[1]
       /\ input = application[2]
  /\ output = <<>>

SpecPure == InitPure /\ [][PureNext]_vars

-----------------------------------------------------------------------------
(* Properties of the utility functions *)

\* C23: the mapper from status code to message is total and deterministic:
\* 400, 404 and 429 have their own messages, 500, 502, 503 and 504 share the
\* temporarily-unavailable message, and every other status N, 501 included,
\* gets the generic message that contains "status N".
C23_StatusMessages ==
  (fn = "getErrorMessageForStatus" /\ output # <<>>) =>
    LET N == input[1] IN
    /\ output.kind = "returned"
    /\ N = 400 => output.value = "Invalid wallet address format."
    /\ N = 404 => output.value = "Wallet not found. Verify the address is correct."
    /\ N = 429 => output.value = "Rate limited by VESPR API. Please wait before retrying."
    /\ N \in {500, 502, 503, 504}
         => output.value = "VESPR API is temporarily unavailable. Try again later."
    /\ N \notin {400, 404, 429, 500, 502, 503, 504}
         => /\ output.value = "VESPR API returned an error (status " \o ToString(N) \o ")."
            /\ Contains(output.value, "status " \o ToString(N))
    /\ output = Returned(getErrorMessageForStatus(N))

\* 501 is mapped to the generic message
C23_Witness ==
  /\ fn = "getErrorMessageForStatus"
  /\ input = <<501>>
  /\ output # <<>>
  /\ output.value = "VESPR API returned an error (status 501)."

\* s without the white space at its two ends, stated by where it lies in s
TrimmedForm(s) ==
  IF \A i \in 1..Len(s) : CharAt(s, i) \in WhiteSpace THEN ""
  ELSE LET first == CHOOSE i \in 1..Len(s) :
                      /\ CharAt(s, i) \notin WhiteSpace
                      /\ \A j \in 1..(i - 1) : CharAt(s, j) \in WhiteSpace
           last == CHOOSE i \in 1..Len(s) :
                     /\ CharAt(s, i) \notin WhiteSpace
                     /\ \A j \in (i + 1)..Len(s) : CharAt(s, j) \in WhiteSpace
       IN  SubSeq(s, first, last)

\* C27: the address validator answers true exactly for a string whose trimmed
\* form has at least 50 characters and begins with "addr1" or "addr_test1";
\* for every other value, a non-string, an empty or blank string, a short
\* string or another prefix, it answers false and does not throw.
C27_AddressFormat ==
  (fn = "isValidCardanoAddress" /\ output # <<>>) =>
    LET address == input[1] IN
    /\ output.kind = "returned"
    /\ output.value \in BOOLEAN
    /\ output.value <=>
         /\ address.t = "string"
         /\ Len(TrimmedForm(address.v)) >= 50
         /\ \/ SubSeq(TrimmedForm(address.v), 1, 5) = "addr1"
            \/ SubSeq(TrimmedForm(address.v), 1, 10) = "addr_test1"

\* a mainnet address of exactly 50 characters between white space is accepted
C27_Witness ==
  /\ fn = "isValidCardanoAddress"
  /\ output # <<>>
  /\ input[1] = JStr("  addr1" \o Chars(45) \o "\t\n")
  /\ output.value = TRUE

\* floor(amount / 10^d), a dot, and amount mod 10^d in d digits, read off the
\* decimal digits of the amount
Shifted(amount, d) ==
  LET whole == IF Len(amount) > d THEN SubSeq(amount, 1, Len(amount) - d) ELSE "0"
      low == IF Len(amount) > d
             THEN SubSeq(amount, Len(amount) - d + 1, Len(amount))
             ELSE Zeros(d - Len(amount)) \o amount
  IN  whole \o "." \o low

\* C26 (as stated): a lovelace amount L is rendered as floor(L / 1000000), a
\* dot and L mod 1000000 in six digits; a token quantity q with decimals
\* d > 0 as floor(q / 10^d), a dot and q mod 10^d in d digits; with d = 0 the
\* quantity is left unchanged.
C26_UnitConversion ==
  /\ (fn = "lovelaceToAda" /\ output # <<>> /\ IsDigits(input[1]))
       => output = Returned(Shifted(input[1], 6))
  /\ (fn = "formatTokenAmount" /\ output # <<>> /\ IsDigits(input[1]))
       => output = Returned(IF input[2] = 0 THEN input[1] ELSE Shifted(input[1], input[2]))

\* C26, what holds: the conversion is as stated for lovelace amounts and for
\* tokens of at most 22 decimals.
C26_ExactUpTo22Decimals ==
  /\ (fn = "lovelaceToAda" /\ output # <<>> /\ IsDigits(input[1]))
       => output = Returned(Shifted(input[1], 6))
  /\ (fn = "formatTokenAmount" /\ output # <<>> /\ IsDigits(input[1])
         /\ input[2] <= MaxExactPowerOfTen)
       => output = Returned(IF input[2] = 0 THEN input[1] ELSE Shifted(input[1], input[2]))
  /\ (fn = "lovelaceToAda" /\ output # <<>> /\ input[1] = "5000000000")
       => output.value = "5000.000000"
  /\ (fn = "lovelaceToAda" /\ output # <<>> /\ input[1] = "100000000")
       => output.value = "100.000000"
  /\ (fn = "formatTokenAmount" /\ output # <<>> /\ input = <<"1000000", 6>>)
       => output.value = "1.000000"

\* 1.00000000000000000000007 of a token of 23 decimals is not rendered so
C26_Witness ==
  /\ fn = "formatTokenAmount"
  /\ output # <<>>
  /\ input = <<"1" \o Zeros(22) \o "7", 23>>
  /\ output.kind = "returned"
  /\ output.value \in {"1.00000000000000008388615", "0.100000000000000000000007"}

-----------------------------------------------------------------------------
(* The get_wallet_balance tool: the handler registered by
   registerGetWalletBalance, on top of the repository *)

MaxInvocations == 2

\* the callers of the repository in Promise.all
WalletCaller == 1
SpotCaller == 2

\* the addresses and currencies the tool is invoked with
ToolAddresses == {JStr(MainnetAddress), JStr("addr1abc"), JStr(StakeAddress)}
ToolCurrencies == {"USD", CryptoCurrencyADA, "XYZ"}

\* a wallet response that passes the schema with rewards that are no integer
NoIntegerResponse ==
  JObj([mockWalletResponse.fields EXCEPT !.rewards_lovelace = JStr("abc")])

\* the bodies the backend answers the calls of the tool with
ToolBodies(op, arg) ==
  IF op = "wallet" THEN {mockWalletResponse, NoIntegerResponse}
  ELSE {SpotBody(arg, "0.5")}

\* a result with isError: true
ErrorResult(text) == [isError |-> TRUE, text |-> text, structuredContent |-> JUndefined]

\* a result with structuredContent; the summary text and the values in fiat
\* currency, which are floating-point arithmetic, are left out
BalanceResult(content) == [isError |-> FALSE, text |-> "", structuredContent |-> content]

\* a handler that checks the address only
inputError_addressOnly(address, currency) ==
  IF ~isValidCardanoAddress(address)
  THEN "Error: Invalid Cardano address. Address should be a valid bech32 Shelley Era Wallet address."
  ELSE ""

\* the two checks at the head of the handler: the text of the error result,
\* "" when both pass
inputError(address, currency) ==
  IF ~isValidCardanoAddress(address)
  THEN "Error: Invalid Cardano address. Address should be a valid bech32 Shelley Era Wallet address."
  ELSE IF currency \notin SUPPORTED_CURRENCIES
  THEN "Error: Invalid currency. Currency must be one of the supported fiat currencies."
  ELSE ""

\* a catch block that hands on the message alone
catchText_messageOnly(error) == error.message

\* the text of the catch block of the handler; what request() throws with
\* maxRetries below 1 is undefined, no instance of Error
catchText(error) ==
  IF error.name = "VesprApiError"
  THEN "Error: " \o error.message
  ELSE "Error: An unexpected error occurred. "
         \o (IF error.name # "undefined" THEN error.message ELSE "Unknown error")

\* walletData.tokens.map(formatTokenAmount): every sequence of outcomes it can have
TokenAmounts(tokens) ==
  LET outcomes(i) == formatTokenAmount(Get(tokens[i], "quantity").v,
                                       Get(tokens[i], "decimals").n)
  IN  {f \in [1..Len(tokens) -> UNION {outcomes(i) : i \in 1..Len(tokens)}] :
         \A i \in 1..Len(tokens) : f[i] \in outcomes(i)}

\* the try block after Promise.all: the output, or the first error thrown by
\* a conversion
transform(walletData, currency) ==
  LET adaBalance == lovelaceToAda(Get(walletData, "lovelace").v)
      stakingRewards == lovelaceToAda(Get(walletData, "rewards_lovelace").v)
  IN  IF adaBalance.kind = "thrown" THEN {adaBalance}
      ELSE IF stakingRewards.kind = "thrown" THEN {stakingRewards}
      ELSE {LET failed == {i \in DOMAIN amounts : amounts[i].kind = "thrown"} IN
            IF failed # {}
            THEN amounts[CHOOSE i \in failed : \A j \in failed : i <= j]
            ELSE Returned([currency |-> currency,
                           ada_balance |-> adaBalance.value,
                           staking_rewards |-> stakingRewards.value,
                           tokens |-> [i \in DOMAIN amounts |-> amounts[i].value],
                           handles |-> Get(walletData, "handles")])
              : amounts \in TokenAmounts(Get(walletData, "tokens").items)}

\* the handler is invoked: the two checks, then both calls of Promise.all
\* up to their first await
toolCall(address, currency) ==
  /\ tool.pc \in {"idle", "done"}
  /\ tool.invocations < MaxInvocations
  /\ \A p \in Callers : calls[p].pc \in {"idle", "done"}
  /\ LET invoked == [tool EXCEPT !.address = address, !.currency = currency,
                                 !.invocations = tool.invocations + 1] IN
       IF inputError(address, currency) # ""
       THEN /\ tool' = [invoked EXCEPT !.pc = "done",
                           !.result = Returned(ErrorResult(inputError(address, currency)))]
            /\ UNCHANGED <<cache, calls, started, touched, lastEnd>>
       ELSE /\ tool' = [invoked EXCEPT !.pc = "awaiting", !.result = Pending]
            /\ started' = started + 2
            /\ lookupSpotPrice(
                 [calls EXCEPT ![WalletCaller] =
                    enterLoop([IdleCall EXCEPT !.op = "wallet", !.arg = address.v], 0)],
                 SpotCaller, currency)
  /\ UNCHANGED <<now, fetched>>
  /\ UNCHANGED <<maxRetries, retryBaseDelayMs, clientVars, pureVars>>

\* a handler that waits for both calls to end (Promise.allSettled)
Settled_allSettled == \A p \in Callers : calls[p].pc = "done"

\* Promise.all has settled: one of the calls has thrown, or both have returned
Settled ==
  \/ \E p \in Callers : calls[p].pc = "done" /\ calls[p].outcome.kind = "thrown"
  \/ \A p \in Callers : calls[p].pc = "done" /\ calls[p].outcome.kind = "returned"

\* the handler goes on after `await Promise.all`: with the rest of the try
\* block, or in the catch block with the error of the call that has thrown
toolSettles ==
  /\ tool.pc = "awaiting"
  /\ Settled
  /\ IF \E p \in Callers : calls[p].outcome.kind = "thrown"
     THEN LET p == CHOOSE q \in Callers : calls[q].outcome.kind = "thrown" IN
          tool' = [tool EXCEPT !.pc = "done",
                     !.result = Returned(ErrorResult(catchText(calls[p].outcome.error)))]
     ELSE \E t \in transform(calls[WalletCaller].outcome.value, tool.currency) :
          tool' = [tool EXCEPT !.pc = "done",
                     !.result = Returned(IF t.kind = "thrown"
                                         THEN ErrorResult(catchText(t.error))
                                         ELSE BalanceResult(t.value))]
  /\ UNCHANGED <<maxRetries, retryBaseDelayMs, clientVars, repoVars, pureVars>>

\* the handler runs on as soon as Promise.all has settled, before the next
\* response or timer is handled
HandlerIsNext == tool.pc = "awaiting" /\ Settled

ToolNext ==
  \/ \E address \in ToolAddresses, currency \in ToolCurrencies : toolCall(address, currency)
  \/ toolSettles
  \/ \E p \in Callers, status \in RepoStatuses :
       \E data \in IF status = 200 THEN ToolBodies(calls[p].op, calls[p].arg)
                   ELSE {JUndefined} :
         ~HandlerIsNext /\ ~ContinuationIsNext /\ transportAnswers(p, status, data)
  \/ \E p \in Callers : ~HandlerIsNext /\ ~ContinuationIsNext /\ transportRejects(p)
  \/ \E p \in Callers : ~HandlerIsNext /\ ~ContinuationIsNext /\ sleepElapses(p)
  \/ \E p \in Callers : storeSpotPrice(p)

InitTool ==
  /\ maxRetries \in RepoMaxRetriesValues
  /\ retryBaseDelayMs = DefaultRetryBaseDelayMs
  /\ ClientIdle
  /\ RepoIdle
  /\ ToolIdle
  /\ PureIdle

SpecTool == InitTool /\ [][ToolNext]_vars

-----------------------------------------------------------------------------
(* Properties of the get_wallet_balance tool *)

\* the address has the form the tool requires, stated on its trimmed form
WellFormed(address) ==
  /\ address.t = "string"
  /\ Len(TrimmedForm(address.v)) >= 50
  /\ \/ SubSeq(TrimmedForm(address.v), 1, 5) = "addr1"
     \/ SubSeq(TrimmedForm(address.v), 1, 10) = "addr_test1"

\* the arguments of the invocation pass the two checks of the handler
Accepted(address, currency) == WellFormed(address) /\ currency \in SUPPORTED_CURRENCIES

\* the calls of Promise.all that have thrown
ThrownCalls == {p \in Callers : calls[p].pc = "done" /\ calls[p].outcome.kind = "thrown"}

\* text is how the handler has to render the error of a call
Renders(text, error) ==
  IF error.name = "VesprApiError" THEN text = "Error: " \o error.message
  ELSE IF error.name = "undefined"
  THEN text = "Error: An unexpected error occurred. Unknown error"
  ELSE text = "Error: An unexpected error occurred. " \o error.message

\* C24: the handler of get_wallet_balance never throws: whether a call of
\* the repository throws a VesprApiError or anything else, or the data make
\* a unit conversion throw, it returns a result; every failure is a result
\* with isError whose text begins with "Error: ", and a VesprApiError is
\* rendered as exactly "Error: " followed by its message.
C24_HandlerNeverThrows ==
  tool.pc = "done" =>
    /\ tool.result.kind = "returned"
    /\ LET result == tool.result.value IN
       /\ result.isError => StartsWith(result.text, "Error: ")
       /\ ~Accepted(tool.address, tool.currency) => result.isError
       /\ (Accepted(tool.address, tool.currency) /\ ThrownCalls # {})
            => /\ result.isError
               /\ \E p \in ThrownCalls : Renders(result.text, calls[p].outcome.error)
       /\ (Accepted(tool.address, tool.currency) /\ ThrownCalls = {})
            => /\ calls[WalletCaller].outcome.kind = "returned"
               /\ IF Get(calls[WalletCaller].outcome.value, "rewards_lovelace") = JStr("abc")
                  THEN /\ result.isError
                       /\ result.text = "Error: An unexpected error occurred. "
                                           \o "Cannot convert abc to a BigInt"
                  ELSE /\ ~result.isError
                       /\ result.structuredContent.ada_balance = "5000.000000"
                       /\ result.structuredContent.staking_rewards = "100.000000"
                       /\ result.structuredContent.tokens = <<"1.000000">>

\* the rewards of the wallet are no integer: the error of BigInt is rendered
C24_Witness ==
  /\ tool.pc = "done"
  /\ maxRetries >= 1
  /\ ThrownCalls = {}
  /\ tool.result.kind = "returned"
  /\ tool.result.value.isError
  /\ tool.result.value.text = "Error: An unexpected error occurred. Cannot convert abc to a BigInt"

\* C25: the tool checks its input before any call of the API: an invocation
\* with an address that is not well-formed, or with an unsupported currency,
\* returns an error result without invoking fetch and without reading or
\* writing the cache, and only accepted input leads to calls.
C25_ValidationBeforeCalls ==
  [][\A address \in ToolAddresses, currency \in ToolCurrencies :
       toolCall(address, currency) =>
         IF Accepted(address, currency)
         THEN tool'.pc = "awaiting"
         ELSE /\ UNCHANGED <<now, cache, calls, started, fetched, touched, lastEnd>>
              /\ tool'.pc = "done"
              /\ tool'.result.kind = "returned"
              /\ tool'.result.value.isError
              /\ StartsWith(tool'.result.value.text,
                            IF WellFormed(address) THEN "Error: Invalid currency."
                            ELSE "Error: Invalid Cardano address.")]_vars

\* a second invocation, with a short address, after a first one has stored a
\* spot price: the entry is still the only one
C25_Witness ==
  /\ tool.pc = "done"
  /\ tool.invocations = 2
  /\ tool.address = JStr("addr1abc")
  /\ Len(cache) = 1
  /\ tool.result.value.isError
  /\ \A p \in Callers : calls[p].fetches = 1

\* ---------------------------------------------------------------------------
\* The timers and abort controllers of one client call
\* ---------------------------------------------------------------------------

\* the attempts whose timeout timer is armed
ArmedTimers == { a \in 0..(Len(timers) - 1) : timers[a + 1] = "pending" }

\* C31: every transport invocation creates one timer and one controller of its
\* own; at most one timer is armed at any moment, the timer of an earlier
\* attempt is never armed while a later attempt runs or while the call waits
\* between attempts, only the attempt whose own timer fired is aborted, and an
\* attempt that runs with its timer armed has an unaborted signal whatever
\* happened to the attempts before it
C31_OneTimerPerAttempt ==
  /\ Len(timers) = fetchCalls
  /\ Cardinality(ArmedTimers) <= 1
  /\ \A a \in ArmedTimers : ~(a < attempt)
  /\ pc \in {"sleep", "loop", "idle", "done"} => ArmedTimers = {}
  /\ \A a \in aborted : a < Len(timers) /\ timers[a + 1] = "fired"
  /\ \A i \in 1..Len(injected) :
       injected[i].kind = "timeout" => (i - 1) \in aborted
  /\ attempt \in ArmedTimers => MayResolve(attempt)

\* the third attempt runs with its own timer armed, the timers of the two
\* attempts before it released
C31_Witness ==
  /\ pc = "fetch"
  /\ attempt = 2
  /\ timers = <<"cleared", "cleared", "pending">>
  /\ ArmedTimers = {2}

\* how the attempt that has just ended ended, if this step ends an attempt
EndsAttemptAs(kinds) ==
  /\ Len(injected') = Len(injected) + 1
  /\ injected'[Len(injected')].kind \in kinds

\* C32: the timer guards the wait for the response only. While the body is
\* read the timer of the attempt is released and its signal is not aborted,
\* the read neither arms nor fires a timer and ends the attempt as a success,
\* an invalid body or a parse failure; an attempt ends as a timeout only from
\* the wait for the response, after its own timer fired
C32_TimerGuardsFetchOnly ==
  [][ /\ pc = "json" =>
           /\ timers[attempt + 1] = "cleared"
           /\ attempt \notin aborted
           /\ timers' = timers
           /\ aborted' = aborted
           /\ pc' # "json" => EndsAttemptAs({"success", "invalid", "parse"})
      /\ EndsAttemptAs({"timeout"}) =>
           /\ pc = "fetch"
           /\ timers[attempt + 1] = "fired"
           /\ attempt \in aborted ]_vars

\* the second attempt has received its response and reads the body
C32_Witness ==
  /\ pc = "json"
  /\ attempt = 1
  /\ timers = <<"cleared", "cleared">>
  /\ aborted = {}

\* ---------------------------------------------------------------------------
\* The backoff waits of one client call
\* ---------------------------------------------------------------------------

\* the time a call has spent in sleep(delayMs) so far
RECURSIVE TotalWait(_)
TotalWait(ws) == IF ws = <<>> THEN 0 ELSE ws[1] + TotalWait(Tail(ws))

\* C33, as the claim states it: a finished call has waited once less than it
\* has invoked the transport
C33_WaitsOneLessThanInvocations ==
  pc = "done" => Len(waits) = fetchCalls - 1

\* C33, for the calls that invoke the transport: while an attempt runs and
\* when the call has ended the call has waited once less than it has invoked
\* the transport, so no wait follows the last attempt; a call that ends with
\* the failure of attempt maxRetries - 1 has waited
\* retryBaseDelayMs * (2^(maxRetries-1) - 1) in total
C33_NoWaitAfterLastAttempt ==
  /\ pc \in {"fetch", "json"} => Len(waits) = fetchCalls - 1
  /\ pc \in {"sleep", "loop"} => Len(waits) = fetchCalls
  /\ pc = "done" /\ fetchCalls >= 1 => Len(waits) = fetchCalls - 1
  /\ pc = "done" /\ outcome.kind = "thrown" /\ maxRetries >= 1
       /\ fetchCalls = maxRetries
       => TotalWait(waits) = retryBaseDelayMs * (Pow2(maxRetries - 1) - 1)

\* a call with maxRetries = 4 and the default base delay has failed four times
\* and has waited 1000 + 2000 + 4000 ms
C33_Witness ==
  /\ pc = "done"
  /\ outcome.kind = "thrown"
  /\ maxRetries = 4
  /\ fetchCalls = 4
  /\ waits = <<1000, 2000, 4000>>
  /\ TotalWait(waits) = retryBaseDelayMs * 7

\* ---------------------------------------------------------------------------
\* Lookups of one currency that miss the cache together
\* ---------------------------------------------------------------------------

\* no fetch for the currency of lookup cl had completed when cl began: no
\* lookup of that currency had finished, or the last one to finish had thrown
\* without an attempt
NoFetchBefore(cl) ==
  \/ cl.prev = NoEnd
  \/ cl.prev.kind = "thrown" /\ cl.prev.fetches = 0

\* callers p and q look up the same fiat currency and each began while no
\* entry existed for it and before a fetch for it had completed
Together(cs, p, q) ==
  /\ p # q
  /\ cs[p].op = "spot" /\ cs[q].op = "spot"
  /\ cs[p].pc # "idle" /\ cs[q].pc # "idle"
  /\ cs[p].arg = cs[q].arg
  /\ ~IsReference(cs[p].arg)
  /\ NoFetchBefore(cs[p]) /\ NoFetchBefore(cs[q])

\* the lookup cl asked the cache once, missed, and what it returns is the
\* validated body of the last response of its own pipeline
OwnFetch(cl) ==
  /\ cl.gets = 1
  /\ ~cl.hit
  /\ cl.outcome.kind = "returned" =>
       /\ cl.met # <<>>
       /\ Last(cl.met).kind = "success"
       /\ cl.outcome.value = StripObject(Last(cl.met).data, SchemaOf(MethodOf("spot")))

\* the value the cache ch holds under key k
EntryValue(ch, k) == ch[IndexOf(ch, k)].value

BothReturned(cs, p, q) ==
  /\ cs[p].pc = "done" /\ cs[p].outcome.kind = "returned"
  /\ cs[q].pc = "done" /\ cs[q].outcome.kind = "returned"

\* C34, as the claim states it: two lookups that miss together each run a
\* pipeline of their own, at least two transport invocations in total, each
\* returns the response of its own fetch, and when both have returned the
\* entry is the value of the lookup that finished last
C34_MissesNotCoalesced ==
  \A p \in Callers, q \in Callers :
    Together(calls, p, q) =>
      /\ OwnFetch(calls[p])
      /\ calls[p].fetches + calls[q].fetches >= 2
      /\ BothReturned(calls, p, q) =>
           /\ CacheKey(calls[p].arg) \in Keys(cache)
           /\ EntryValue(cache, CacheKey(calls[p].arg)) = lastEnd[calls[p].arg].value

\* C34, for a client that makes attempts: two lookups that miss together each
\* invoke the transport themselves and return the response of their own fetch;
\* the fetch that completes has its continuation run next, before the other
\* fetch can complete, and the continuation of the second to complete sets the
\* entry to its own response, which the entry then keeps
C34_MissesNotCoalescedOfAttempts ==
  [][ \A p \in Callers, q \in Callers :
        Together(calls', p, q) /\ maxRetries >= 1 =>
          /\ OwnFetch(calls'[p])
          /\ calls'[p].fetches >= 1
          /\ calls[p].pc = "fetch" /\ calls'[p].pc = "store" =>
               /\ calls[q].pc # "store"
               /\ calls'[q] = calls[q]
               /\ ContinuationIsNext'
          /\ calls[p].pc = "store" /\ BothReturned(calls', p, q) =>
               /\ calls[q].pc = "done"
               /\ CacheKey(calls[p].arg) \in Keys(cache')
               /\ EntryValue(cache', CacheKey(calls[p].arg)) = calls[p].outcome.value
               /\ lastEnd'[calls[p].arg].value = calls[p].outcome.value
          /\ BothReturned(calls, p, q) /\ BothReturned(calls', p, q) =>
               /\ CacheKey(calls[p].arg) \in Keys(cache')
               /\ EntryValue(cache', CacheKey(calls[p].arg))
                    = EntryValue(cache, CacheKey(calls[p].arg)) ]_vars

\* two lookups for USD missed together and fetched different prices; the
\* second caller's fetch completed first, the entry is the first caller's
C34_Witness ==
  /\ Together(calls, 1, 2)
  /\ BothReturned(calls, 1, 2)
  /\ calls[1].arg = "USD"
  /\ calls[1].fetches >= 1 /\ calls[2].fetches >= 1
  /\ calls[1].outcome.value # calls[2].outcome.value
  /\ lastEnd["USD"].value = calls[1].outcome.value
  /\ EntryValue(cache, "USD") = calls[1].outcome.value

\* ---------------------------------------------------------------------------
\* The two calls of one invocation of get_wallet_balance
\* ---------------------------------------------------------------------------

\* C35: an accepted invocation starts both calls in one step; the handler goes
\* on as soon as one call has thrown, before anything else can fail, and then
\* returns an error result that renders the error of every call that has
\* thrown by then; it returns a success result only when both calls have
\* returned; a returned result is never replaced; and the continuation of a
\* spot-price fetch that succeeds stores the price whatever the handler has
\* returned
C35_FirstFailureDecides ==
  [][ /\ tool.pc # "awaiting" /\ tool'.pc = "awaiting" =>
           /\ calls'[WalletCaller].op = "wallet"
           /\ calls'[SpotCaller].op = "spot"
           /\ started' = started + 2
      /\ tool.pc = "awaiting" /\ ThrownCalls # {} =>
           /\ tool'.pc = "done"
           /\ calls' = calls
           /\ tool'.result.kind = "returned"
           /\ tool'.result.value.isError
           /\ \A p \in ThrownCalls : Renders(tool'.result.value.text, calls[p].outcome.error)
      /\ tool.pc = "awaiting" /\ tool'.pc = "done" /\ ~tool'.result.value.isError =>
           \A p \in Callers : calls[p].pc = "done" /\ calls[p].outcome.kind = "returned"
      /\ tool.pc = "done" /\ tool'.invocations = tool.invocations => tool' = tool
      /\ calls[SpotCaller].pc = "store" =>
           /\ calls'[SpotCaller].pc = "done"
           /\ calls'[SpotCaller].sets = 1
           /\ tool' = tool
           /\ CacheKey(calls[SpotCaller].arg) \in Keys(cache')
           /\ EntryValue(cache', CacheKey(calls[SpotCaller].arg))
                = calls[SpotCaller].outcome.value ]_vars

\* the wallet call has failed with 404 and the invocation has returned that
\* error; the spot price fetched in the same invocation is in the cache
C35_Witness ==
  /\ tool.pc = "done"
  /\ tool.invocations = 1
  /\ tool.currency = "USD"
  /\ maxRetries >= 1
  /\ tool.result.kind = "returned"
  /\ tool.result.value.isError
  /\ ThrownCalls = {WalletCaller}
  /\ calls[WalletCaller].outcome.error.statusCode = 404
  /\ Renders(tool.result.value.text, calls[WalletCaller].outcome.error)
  /\ calls[SpotCaller].pc = "done"
  /\ calls[SpotCaller].fetches = 1
  /\ calls[SpotCaller].sets = 1
  /\ "USD" \in Keys(cache)
  /\ EntryValue(cache, "USD") = calls[SpotCaller].outcome.value
====
